---- MODULE Spec2Model ----
(***************************************************************************)
(* Model of the TIKR mobile client's prediction cache manager              *)
(* (tikr-mobile/src/services/predictions.js) and of the user record        *)
(* operations (tikr-mobile/src/services/firestore.js).                     *)
(*                                                                         *)
(* Time is counted in whole hours.  The document store and the prediction  *)
(* API are external collaborators: every getDoc, setDoc and axios.post     *)
(* draws its outcome from a small set.                                     *)
(*                                                                         *)
(* Every await of the source is a step of its own: a call of               *)
(* fetchLatestPredictions stops at each getDoc, axios.post and setDoc, and  *)
(* between two such steps the clock can advance and another call can be     *)
(* made or go on.  A behaviour holds up to two calls of                     *)
(* fetchLatestPredictions, each with its own locals.                        *)
(***************************************************************************)
EXTENDS Integers, Sequences, FiniteSets, TLC

\* ------------------------------------------------------------------ bounds
\* Number of tickers in validTickers (7 in the source, fewer here).
NumTickers == 2
\* The clock stops at MaxNow hours.
MaxNow == 24
\* The clock of the behaviours of the screen (SpecHome) stops at HomeMaxNow.
HomeMaxNow == 12
\* The clock advances in steps of these many hours.
TickSteps == {12}

\* Number of user accounts.
NumUsers == 1
\* Number of tickers the watchlist operations are called with.
NumWatchTickers == 2
\* The longest forecast sequence of an API response.
MaxForecast == 3

\* --------------------------------------------------------------- constants
CACHE_EXPIRY_HOURS == 24
\* default of the maxRetries parameter (firestore.js)
maxRetries == 3

validTickers == [i \in 1..NumTickers |-> i]
Tickers == 1..NumTickers

\* "no timestamp" for the storedAt field of a record that was never stored
NoTime == 0 - 1
\* new Date(0): the epoch lies far before every instant of the model
EpochHours == 0 - (1000 * CACHE_EXPIRY_HOURS)

\* Shapes a stored lastUpdated field can have (fetchCachedPredictions
\* distinguishes them): a Firestore Timestamp, an ISO string, a string that
\* does not parse as a date, an object with a seconds field, any other
\* truthy value, and a missing field.
Shapes == {"timestamp", "string", "badstring", "seconds", "other", "none"}
ReadOutcomes == {"ok", "permission-denied", "unavailable"}
WriteOutcomes == {"ok", "permission-denied"}
FetchOutcomes == {"ok", "fail"}

VARIABLES
  now,                \* wall clock, hours
  predStore,          \* collection 'predictions': ticker -> document
  call,               \* per fetchLatestPredictions call: its position, its
                      \* locals and the history of its store and API calls
  users,              \* collection 'users': userId -> document
  task,               \* per client: the user-record operation in progress
  event,              \* history: the last store write or return of such an
                      \* operation
  calls,              \* history, per client: the store calls of its
                      \* operation (started last)
  refresh,            \* per client: the fetch-and-store of one ticker in
                      \* progress
  applied,            \* history, per ticker: the setDoc the store accepted
                      \* last
  predictions,        \* HomeScreen state: the held records
  alert,              \* HomeScreen: the alert shown last
  request,            \* HomeScreen, per fetchLatestPredictions call: the
                      \* fetchPredictionsData call that made it
  hint,               \* history: the last value of shouldRefreshPredictions
                      \* that was computed on its own
  watchlist,          \* HomeScreen state: the watchlist held in memory
  toggle,             \* HomeScreen, per client: the handleToggleWatchlist
                      \* call in progress
  load,               \* HomeScreen, per client: the loadInitialData,
                      \* onRefresh or handleFetchUserData call in progress
  hooks,              \* HomeScreen state: refreshing, isForceRefreshing,
                      \* userDataLoading, and whether userData is held
  apiData,            \* fetchStockPrediction: the response of the API
  predictionObject    \* fetchStockPrediction: the returned record or error

\* the clock and the store, and the calls that read and write them
envVars == <<now, predStore>>
predVars == <<envVars, call>>

userVars == <<users, task, event, calls>>

storeVars == <<refresh, applied>>
screenVars == <<predictions, alert, request, hint>>
toggleVars == <<watchlist, toggle>>
loadVars == <<load, hooks>>
homeVars == <<screenVars, toggleVars, loadVars>>
apiVars == <<apiData, predictionObject>>
\* the state a watchlist operation leaves alone, the handler that awaits it
\* apart
otherVars == <<storeVars, screenVars, loadVars, apiVars>>

\* the state outside the pipeline and the user records
restVars == <<storeVars, homeVars, apiVars>>

vars == <<predVars, userVars, restVars>>

\* ---------------------------------------------------------------- documents
\* A missing document (predictionDoc.exists() is false).
Absent == [ticker |-> 0, src |-> "absent",
           lastUpdated |-> [shape |-> "none", t |-> 0], storedAt |-> NoTime]

Exists(d) == d.src # "absent"

\* fetchStockPrediction's predictionObject: lastUpdated is new Date(), there
\* is no storedAt field.  src names where the numbers come from.
ApiRecord(t, clock) ==
  [ticker |-> t, src |-> "api", lastUpdated |-> clock, storedAt |-> NoTime]

\* generateSamplePredictions: fabricated records.
SampleRecord(t, clock) ==
  [ticker |-> t, src |-> "sample", lastUpdated |-> clock, storedAt |-> NoTime]

\* faulty variant of lines 226-229: lastUpdated is left out of the stored
\* document.
PredictionToStoreUndated(p, clock) ==
  [ticker |-> p.ticker, src |-> p.src,
   lastUpdated |-> [shape |-> "none", t |-> 0],
   storedAt |-> clock]

\* storePrediction lines 219-243: the document written for a prediction.
PredictionToStore(p, clock) ==
  [ticker |-> p.ticker, src |-> p.src,
   lastUpdated |-> [shape |-> "timestamp", t |-> p.lastUpdated],
   storedAt |-> clock]

\* faulty variant of line 246: setDoc with {merge: true} keeps the stored
\* fields that the written record does not have.
SetDocumentMerge(old, new) ==
  [f \in DOMAIN old \cup DOMAIN new |->
     IF f \in DOMAIN new THEN new[f] ELSE old[f]]

\* faulty variant of line 246: a write guarded by a version check, which
\* keeps a stored record that is newer than the written one.
SetDocumentIfNewer(old, new) ==
  IF old.src # "absent" /\ old.lastUpdated.shape = "timestamp"
     /\ old.lastUpdated.t > new.lastUpdated.t
  THEN old ELSE new

\* line 246: setDoc(doc(db, 'predictions', ticker), predictionToStore)
\* without options; the written record replaces the stored document.
SetDocument(old, new) == new

\* A parsed date: valid is FALSE for an Invalid Date.
Date(t) == [valid |-> TRUE, t |-> t]
InvalidDate == [valid |-> FALSE, t |-> 0]

\* fetchCachedPredictions lines 107-124.
ParseLastUpdated(d, clock) ==
  LET lu == d.lastUpdated IN
  CASE lu.shape = "none"      -> Date(EpochHours)
    [] lu.shape = "timestamp" -> Date(lu.t)
    [] lu.shape = "string"    -> Date(lu.t)
    [] lu.shape = "badstring" -> InvalidDate
    [] lu.shape = "seconds"   -> Date(lu.t)
    [] OTHER                  -> Date(clock)

\* faulty variant of line 129: the comparison includes the boundary.
IsFreshInclusive(d, cacheNow, clock) ==
  LET lastUpdated == ParseLastUpdated(d, clock) IN
  lastUpdated.valid /\ (cacheNow - lastUpdated.t) <= CACHE_EXPIRY_HOURS

\* lines 127-129: hoursElapsed < CACHE_EXPIRY_HOURS (NaN compares false).
\* cacheNow is the now of line 95, taken before the loop; clock is the
\* hour at which the document is read.
IsFresh(d, cacheNow, clock) ==
  LET lastUpdated == ParseLastUpdated(d, clock) IN
  lastUpdated.valid /\ (cacheNow - lastUpdated.t) < CACHE_EXPIRY_HOURS

\* lines 131-139: the record pushed for a served document.
CachedView(d, clock) ==
  [ticker |-> d.ticker, src |-> d.src,
   lastUpdated |-> ParseLastUpdated(d, clock).t, storedAt |-> d.storedAt]

Zero == [t \in Tickers |-> 0]

RECURSIVE SelectTickers(_, _)
\* validTickers.filter(ticker => !cachedTickers.includes(ticker)), line 53
SelectTickers(seq, drop) ==
  IF seq = <<>> THEN <<>>
  ELSE IF Head(seq) \in drop THEN SelectTickers(Tail(seq), drop)
       ELSE <<Head(seq)>> \o SelectTickers(Tail(seq), drop)

TickersOf(recs) == {recs[k].ticker : k \in 1..Len(recs)}

\* ------------------------------------------------- fetchLatestPredictions
\* faulty variant of line 32: the forceRefresh argument is ignored.
StartPcIgnoringForce(force) == "cache"

\* lines 32-39: a forcing call goes straight to fetchAndStorePredictions.
StartPc(force) == IF force THEN "all" ELSE "cache"

\* faulty variant of lines 159-164: the hits read before a denial are kept.
CacheReadResultKeepingHits(h, permissionError) == h

\* lines 159-164: what fetchCachedPredictions returns.
CacheReadResult(h, permissionError) == IF permissionError THEN <<>> ELSE h

\* faulty variant of lines 52-53: every ticker counts as missing.
MissingTickersAll(cached) == validTickers

\* faulty variant of lines 52-53: the first missing ticker is skipped.
MissingTickersSkipFirst(cached) ==
  Tail(SelectTickers(validTickers, TickersOf(cached)))

\* faulty variant of lines 52-53: the last cached record is not looked at.
MissingTickersButLast(cached) ==
  SelectTickers(validTickers,
                TickersOf(SubSeq(cached, 1, Len(cached) - 1)))

\* lines 52-53: the tickers the cache read did not serve.
MissingTickers(cached) == SelectTickers(validTickers, TickersOf(cached))

\* faulty variant of line 71: only the fetched records are returned.
CombineOnlyApi(cached, api) == api

\* line 71: [...cachedPredictions, ...apiPredictions]
Combine(cached, api) == cached \o api

\* faulty variant of lines 80-84: sample data is returned on failure.
OuterCatchSample ==
  [result |-> [k \in 1..NumTickers |-> SampleRecord(validTickers[k], 0)],
   raised |-> FALSE]

\* lines 80-84: the catch of fetchLatestPredictions returns [].
OuterCatch == [result |-> <<>>, raised |-> FALSE]

\* lines 203-208 and 34/79: the outcome of return await
\* fetchAndStorePredictions(validTickers) inside fetchLatestPredictions.
FetchAllOutcome(fetched) ==
  IF Len(fetched) = 0 THEN OuterCatch
  ELSE [result |-> fetched, raised |-> FALSE]

\* faulty variant of lines 249-261: a record whose write the store rejected
\* is taken out of the fetched records.
RejectedWriteDropping(c) ==
  [c EXCEPT !.apiPredictions = SubSeq(@, 1, Len(@) - 1)]

\* lines 249-261 with 61-63 and 185-191: storePrediction catches the error
\* of a rejected write and returns false; the loop that awaits it goes on
\* with the record it has pushed.
RejectedWrite(c) == c

\* The calls of fetchLatestPredictions in a behaviour, numbered in the order
\* in which they are made.  Nothing makes a call wait for another one: a
\* call can be made while an earlier one awaits a getDoc, an axios.post or a
\* setDoc.
Calls == {1, 2}

\* A call that has not been made.  pc is the part of fetchLatestPredictions
\* the call is in (the cache read, the loop over the missing tickers, the
\* loop of fetchAndStorePredictions), awaiting the promise it waits for, i
\* the index of its loop; cacheNow is the now of fetchCachedPredictions
\* (line 95).  The other locals have the names of the source.  History:
\* snap[t] is the stored document of t when the getDoc of the call for t
\* resolved, readCount, fetchCount and storeAttempts count the getDoc,
\* axios.post and storePrediction calls per ticker, deniedAt is the ticker
\* whose getDoc was denied (or 0), readFailed the tickers whose getDoc
\* failed otherwise, fetchOk the tickers whose fetch succeeded, fetchedAt
\* the hour at which it did, storeOk the tickers whose storePrediction
\* returned true.
NoCall ==
  [pc |-> "idle", awaiting |-> "none", forceRefresh |-> FALSE, i |-> 0,
   cacheNow |-> 0, hits |-> <<>>, hasPermissionError |-> FALSE,
   cachedPredictions |-> <<>>, missingTickers |-> <<>>,
   apiPredictions |-> <<>>, result |-> <<>>, raised |-> FALSE,
   snap |-> [t \in Tickers |-> Absent], readCount |-> Zero, deniedAt |-> 0,
   readFailed |-> {}, fetchCount |-> Zero, fetchOk |-> {},
   fetchedAt |-> [t \in Tickers |-> NoTime],
   storeAttempts |-> Zero, storeOk |-> {}]

InitPred ==
  /\ now = 0
  /\ predStore = [t \in Tickers |-> Absent]
  /\ call = [k \in Calls |-> NoCall]

\* Time passes, whatever the calls are waiting for: every new Date() and
\* serverTimestamp() reads the clock as it is then (lines 95, 120, 229 and
\* 359).
Tick(d) ==
  /\ now + d <= MaxNow
  /\ now' = now + d
  /\ UNCHANGED <<predStore, call>>
  /\ UNCHANGED <<userVars, restVars>>

\* The tickers the fetch loop of the call c runs over: missingTickers
\* (line 57) or the list passed to fetchAndStorePredictions (line 182).
LoopTickers(c) == IF c.pc = "missing" THEN c.missingTickers ELSE validTickers

\* The ticker the fetch loop of the call c is at.
LoopTicker(c) == LoopTickers(c)[c.i]

\* lines 59 and 184 with 274: the loop named loop reaches tickers[idx] and
\* awaits fetchStockPrediction, which posts the request.
Posted(c, loop, tickers, idx) ==
  [c EXCEPT !.pc = loop, !.i = idx, !.awaiting = "post",
            !.fetchCount[tickers[idx]] = @ + 1]

\* The fetch loop of the call c is over: line 71 after the loop over the
\* missing tickers; lines 203-208 after the loop of
\* fetchAndStorePredictions, whose list is returned and whose error is
\* caught by fetchLatestPredictions (lines 34, 79 and 80-84).
Finished(c) ==
  IF c.pc = "missing"
  THEN [c EXCEPT !.pc = "done", !.i = 0, !.awaiting = "none",
                 !.result = Combine(c.cachedPredictions, c.apiPredictions)]
  ELSE [c EXCEPT !.pc = "done", !.i = 0, !.awaiting = "none",
                 !.result = FetchAllOutcome(c.apiPredictions).result,
                 !.raised = FetchAllOutcome(c.apiPredictions).raised]

\* lines 57 and 182: the loop goes on with its next ticker, or ends.
NextIteration(c) ==
  IF c.i = Len(LoopTickers(c)) THEN Finished(c)
  ELSE Posted(c, c.pc, LoopTickers(c), c.i + 1)

\* lines 26-39 and 92-101: the call as fetchLatestPredictions(20, force)
\* leaves it at its first await, the axios.post for the first ticker of a
\* forcing call or the first getDoc of the cache read.
Started(force, clock) ==
  LET c == [NoCall EXCEPT !.forceRefresh = force] IN
  IF StartPc(force) = "all" THEN Posted(c, "all", validTickers, 1)
  ELSE [c EXCEPT !.pc = "cache", !.i = 1, !.awaiting = "getDoc",
                 !.cacheNow = clock]

\* The call k can be made: it has not been made and the calls before it
\* have.
NextCall(k) ==
  /\ call[k].pc = "idle"
  /\ \A j \in Calls : j < k => call[j].pc # "idle"

\* fetchLatestPredictions(20, force) is called: lines 26-39.
CallStart(k, force) ==
  /\ NextCall(k)
  /\ call' = [call EXCEPT ![k] = Started(force, now)]
  /\ UNCHANGED <<envVars, userVars, restVars>>

\* lines 40-79: what fetchLatestPredictions does with the cache read's result
\* (cached): return it, fetch the missing tickers, or fetch all.
AfterCacheRead(c, cached) ==
  LET read == [c EXCEPT !.cachedPredictions = cached]
      missing == MissingTickers(cached)
  IN  IF Len(cached) > 0
      THEN IF Len(cached) = Len(validTickers)
           THEN [read EXCEPT !.pc = "done", !.i = 0, !.awaiting = "none",
                             !.result = cached]
           ELSE IF missing = <<>>
                THEN [read EXCEPT !.pc = "done", !.i = 0,
                                  !.awaiting = "none",
                                  !.result = Combine(cached, <<>>)]
                ELSE Posted([read EXCEPT !.missingTickers = missing],
                            "missing", missing, 1)
      ELSE Posted(read, "all", validTickers, 1)

\* fetchCachedPredictions, one iteration of the loop of lines 99-157 for
\* validTickers[i]: the getDoc of the call k resolves with outcome out.  The
\* document is the stored one at that moment; its age is counted from the
\* now of line 95.  The last iteration (or a break) also returns to
\* fetchLatestPredictions.
CacheReadStep(k, out) ==
  /\ call[k].pc = "cache"
  /\ LET c == call[k]
         t == validTickers[c.i]
         d == predStore[t]
         newHits == IF out = "ok" /\ Exists(d) /\ IsFresh(d, c.cacheNow, now)
                    THEN Append(c.hits, CachedView(d, now)) ELSE c.hits
         perm == (out = "permission-denied")
         read == [c EXCEPT !.hits = newHits, !.hasPermissionError = perm,
                           !.snap[t] = d,
                           !.readCount[t] = @ + 1,
                           !.deniedAt = IF perm THEN t ELSE 0,
                           !.readFailed = IF out = "unavailable"
                                          THEN @ \cup {t} ELSE @]
     IN  call' = [call EXCEPT ![k] =
           IF perm \/ c.i = Len(validTickers)
           THEN AfterCacheRead(read, CacheReadResult(newHits, perm))
           ELSE [read EXCEPT !.i = @ + 1]]
  /\ UNCHANGED <<envVars, userVars, restVars>>

\* lines 59-63 and 184-188 with 269-378: the axios.post of the call k
\* resolves with outcome fo.  A record is pushed, with the clock of that
\* moment as lastUpdated, and storePrediction is called with it (its setDoc
\* is awaited next); a failure is caught and the loop goes on.
FetchResolved(k, fo) ==
  /\ call[k].pc \in {"missing", "all"}
  /\ call[k].awaiting = "post"
  /\ LET c == call[k]
         t == LoopTicker(c)
     IN  call' = [call EXCEPT ![k] =
           IF fo = "ok"
           THEN [c EXCEPT !.apiPredictions = Append(@, ApiRecord(t, now)),
                          !.fetchOk = @ \cup {t},
                          !.fetchedAt[t] = now,
                          !.storeAttempts[t] = @ + 1,
                          !.awaiting = "setDoc"]
           ELSE NextIteration(c)]
  /\ UNCHANGED <<envVars, userVars, restVars>>

\* lines 216-261 with 63 and 188-191: the setDoc of storePrediction of the
\* call k reaches the store and resolves with outcome wo.  An accepted write
\* replaces the stored document, with the clock of that moment as storedAt;
\* then the loop goes on.
StoreResolved(k, wo) ==
  /\ call[k].pc \in {"missing", "all"}
  /\ call[k].awaiting = "setDoc"
  /\ LET c == call[k]
         p == c.apiPredictions[Len(c.apiPredictions)]
     IN  IF wo = "ok"
         THEN /\ predStore' = [predStore EXCEPT ![p.ticker] =
                    SetDocument(@, PredictionToStore(p, now))]
              /\ call' = [call EXCEPT ![k] =
                    NextIteration([c EXCEPT !.storeOk = @ \cup {p.ticker}])]
         ELSE /\ call' = [call EXCEPT ![k] = NextIteration(RejectedWrite(c))]
              /\ UNCHANGED predStore
  /\ UNCHANGED <<now, userVars, restVars>>

Next ==
  \/ \E d \in TickSteps : Tick(d)
  \/ \E k \in Calls, force \in BOOLEAN : CallStart(k, force)
  \/ \E k \in Calls, out \in ReadOutcomes : CacheReadStep(k, out)
  \/ \E k \in Calls, fo \in FetchOutcomes : FetchResolved(k, fo)
  \/ \E k \in Calls, wo \in WriteOutcomes : StoreResolved(k, wo)


\* ============================================================ user records
\* (tikr-mobile/src/services/firestore.js and the watchlist operations of
\* predictions.js)
Users == 1..NumUsers
\* the empty userId
NoUser == 0
WatchTickers == 1..NumWatchTickers
\* The handlers that can be in progress at the same time.
Clients == {1, 2}
\* The clients that start operations in the sequential specification.
SeqClients == {1}

StoreOutcomes == {"ok", "fail"}

\* A missing user document (userDoc.exists() is false).
NoDoc == [exists |-> FALSE, watchlist |-> <<>>, lastLoginAt |-> FALSE,
          is_subscribed |-> FALSE]

\* No operation in progress.
Idle == [kind |-> "none", pc |-> "idle", user |-> NoUser, ticker |-> 0,
         userData |-> NoDoc, retries |-> 0, arg |-> FALSE]

NoEvent == [kind |-> "none", user |-> NoUser, ticker |-> 0, ret |-> "none",
            present |-> FALSE, wrote |-> FALSE]

RECURSIVE Count(_, _)
\* number of occurrences of x in the sequence w
Count(x, w) ==
  IF w = <<>> THEN 0
  ELSE (IF Head(w) = x THEN 1 ELSE 0) + Count(x, Tail(w))

\* faulty variant of line 410: the membership test is dropped.
IncludesNever(w, x) == FALSE

\* watchlist.includes(ticker), lines 410 and 459
Includes(w, x) == \E k \in 1..Len(w) : w[k] = x

RECURSIVE Without(_, _)
\* watchlist.filter(t => t !== ticker), line 465
Without(w, x) ==
  IF w = <<>> THEN <<>>
  ELSE IF Head(w) = x THEN Without(Tail(w), x)
       ELSE <<Head(w)>> \o Without(Tail(w), x)

\* faulty variant of lines 398-401: the created watchlist is empty.
NewUserDocEmpty(t) ==
  [exists |-> TRUE, watchlist |-> <<>>, lastLoginAt |-> FALSE,
   is_subscribed |-> FALSE]

\* lines 398-401: the document addToWatchlist creates for a new user.
NewUserDoc(t) ==
  [exists |-> TRUE, watchlist |-> <<t>>, lastLoginAt |-> FALSE,
   is_subscribed |-> FALSE]

\* lines 416-423: {...userData, watchlist, updatedAt} replaces the document.
DocWithAdded(userData, t) ==
  [userData EXCEPT !.exists = TRUE, !.watchlist = Append(userData.watchlist, t)]

\* faulty variant of lines 465-472: the written watchlist is empty.
DocWithNone(userData, t) ==
  [userData EXCEPT !.exists = TRUE, !.watchlist = <<>>]

\* lines 465-472: {...userData, watchlist: newWatchlist, updatedAt}.
DocWithRemoved(userData, t) ==
  [userData EXCEPT !.exists = TRUE,
                   !.watchlist = Without(userData.watchlist, t)]

\* firestore.js lines 23-34: setDoc(..., {merge: true}) with the fields of
\* createUserDocument; watchlistArg is userData.watchlist || [].  A merge
\* replaces every field that is written, the array watchlist included.
MergeUserDocument(d, watchlistArg) ==
  [exists |-> TRUE, watchlist |-> watchlistArg, lastLoginAt |-> TRUE,
   is_subscribed |-> FALSE]

\* firestore.js lines 85-87: merge of {lastLoginAt}.
MergeLastLogin(d) == [d EXCEPT !.exists = TRUE, !.lastLoginAt = TRUE]

\* firestore.js lines 122-130: merge of {is_subscribed, ...}.
MergeSubscription(d, isSubscribed) ==
  [d EXCEPT !.exists = TRUE, !.is_subscribed = isSubscribed]

\* The watchlist argument createUserDocument receives from its callers
\* (App.js 73-77 and the sign-up screen pass none, HomeScreen.js 258-263
\* passes []): userData.watchlist || [] is the empty list.
CallerWatchlist == <<>>

\* No store call yet: the getDoc and setDoc calls resolved, whether one of
\* them was rejected, and whether the last getDoc found no document or
\* found one.
NoCalls == [reads |-> 0, writes |-> 0, failed |-> FALSE, missing |-> FALSE,
            found |-> FALSE]

\* A getDoc of client c resolves with outcome out and snapshot userDoc.
GetDoc(c, out, userDoc) ==
  calls' = [calls EXCEPT ![c].reads = @ + 1,
                         ![c].failed = @ \/ out # "ok",
                         ![c].missing = out = "ok" /\ ~userDoc.exists,
                         ![c].found = out = "ok" /\ userDoc.exists]

\* A setDoc of client c resolves with outcome out.
SetDoc(c, out) ==
  calls' = [calls EXCEPT ![c].writes = @ + 1, ![c].failed = @ \/ out # "ok"]

\* An operation of client c starts.
Called(c) == calls' = [calls EXCEPT ![c] = NoCalls]

\* No handleToggleWatchlist call in progress.
NoToggle == [pc |-> "idle", ticker |-> 0, isInWatchlist |-> FALSE]

\* HomeScreen.js lines 309-316: the await of the handler that called the
\* operation of client c.  When the operation returns in this step the
\* handler goes on, whatever was returned: setWatchlist takes the ticker
\* out of the list held in memory or puts it at its end.
Awaited(c) ==
  IF toggle[c].pc = "awaiting" /\ task'[c].kind = "none"
  THEN /\ watchlist' = IF toggle[c].isInWatchlist
                       THEN Without(watchlist, toggle[c].ticker)
                       ELSE Append(watchlist, toggle[c].ticker)
       /\ toggle' = [toggle EXCEPT ![c] = NoToggle]
  ELSE UNCHANGED toggleVars

InitUsers ==
  /\ users = [u \in Users |-> NoDoc]
  /\ task = [c \in Clients |-> Idle]
  /\ event = NoEvent
  /\ calls = [c \in Clients |-> NoCalls]

\* An operation of client c returns ret (or throws).
Finish(c, ret, present, wrote) ==
  /\ event' = [kind |-> task[c].kind, user |-> task[c].user,
               ticker |-> task[c].ticker, ret |-> ret,
               present |-> present, wrote |-> wrote]
  /\ task' = [task EXCEPT ![c] = Idle]

\* A store write of client c that is not followed by a return in the step.
Wrote(c) ==
  event' = [kind |-> task[c].kind, user |-> task[c].user,
            ticker |-> task[c].ticker, ret |-> "none",
            present |-> FALSE, wrote |-> TRUE]

\* faulty variant of lines 388-391 and 441-444: an empty userId is thrown
\* to the caller.
NoUserIdThrown(kind, u, t) ==
  [kind |-> kind, user |-> u, ticker |-> t, ret |-> "throw",
   present |-> FALSE, wrote |-> FALSE]

\* lines 388-391 and 441-444: if (!userId) return false.
NoUserId(kind, u, t) ==
  [kind |-> kind, user |-> u, ticker |-> t, ret |-> "false",
   present |-> FALSE, wrote |-> FALSE]

\* addToWatchlist(u, t) is called, lines 386-394; an empty userId returns
\* false at once.
addToWatchlistCalled(c, u, t) ==
  /\ task[c].kind = "none"
  /\ IF u = NoUser
     THEN /\ event' = NoUserId("addToWatchlist", u, t)
          /\ UNCHANGED task
     ELSE /\ task' = [task EXCEPT ![c] =
                        [Idle EXCEPT !.kind = "addToWatchlist", !.pc = "read",
                                     !.user = u, !.ticker = t]]
          /\ UNCHANGED event
  /\ Called(c)
  /\ UNCHANGED <<users, predVars, otherVars>>

\* addToWatchlist(u, t) called on its own.
addToWatchlist(c, u, t) ==
  addToWatchlistCalled(c, u, t) /\ UNCHANGED toggleVars

\* lines 394-413: getDoc resolves; a missing document leads to the creating
\* setDoc, a ticker already listed returns true.
addToWatchlistRead(c, out) ==
  /\ task[c].kind = "addToWatchlist" /\ task[c].pc = "read"
  /\ LET userDoc == users[task[c].user] IN
     IF out = "fail" THEN Finish(c, "false", FALSE, FALSE)
     ELSE IF ~userDoc.exists
          THEN /\ task' = [task EXCEPT ![c].pc = "create"]
               /\ UNCHANGED event
     ELSE IF Includes(userDoc.watchlist, task[c].ticker)
          THEN Finish(c, "true", TRUE, FALSE)
     ELSE /\ task' = [task EXCEPT ![c].pc = "write", ![c].userData = userDoc]
          /\ UNCHANGED event
  /\ GetDoc(c, out, users[task[c].user])
  /\ Awaited(c)
  /\ UNCHANGED <<users, predVars, otherVars>>

\* lines 398-402: setDoc of the new document resolves.
addToWatchlistCreate(c, out) ==
  /\ task[c].kind = "addToWatchlist" /\ task[c].pc = "create"
  /\ IF out = "ok"
     THEN /\ users' = [users EXCEPT ![task[c].user] =
                         NewUserDoc(task[c].ticker)]
          /\ Finish(c, "true", FALSE, TRUE)
     ELSE /\ Finish(c, "false", FALSE, FALSE)
          /\ UNCHANGED users
  /\ SetDoc(c, out)
  /\ Awaited(c)
  /\ UNCHANGED <<predVars, otherVars>>

\* lines 416-426: setDoc of the extended watchlist resolves.
addToWatchlistWrite(c, out) ==
  /\ task[c].kind = "addToWatchlist" /\ task[c].pc = "write"
  /\ IF out = "ok"
     THEN /\ users' = [users EXCEPT ![task[c].user] =
                         DocWithAdded(task[c].userData, task[c].ticker)]
          /\ Finish(c, "true", FALSE, TRUE)
     ELSE /\ Finish(c, "false", FALSE, FALSE)
          /\ UNCHANGED users
  /\ SetDoc(c, out)
  /\ Awaited(c)
  /\ UNCHANGED <<predVars, otherVars>>

\* removeFromWatchlist(u, t) is called, lines 439-447.
removeFromWatchlistCalled(c, u, t) ==
  /\ task[c].kind = "none"
  /\ IF u = NoUser
     THEN /\ event' = NoUserId("removeFromWatchlist", u, t)
          /\ UNCHANGED task
     ELSE /\ task' = [task EXCEPT ![c] =
                        [Idle EXCEPT !.kind = "removeFromWatchlist",
                                     !.pc = "read", !.user = u, !.ticker = t]]
          /\ UNCHANGED event
  /\ Called(c)
  /\ UNCHANGED <<users, predVars, otherVars>>

\* removeFromWatchlist(u, t) called on its own.
removeFromWatchlist(c, u, t) ==
  removeFromWatchlistCalled(c, u, t) /\ UNCHANGED toggleVars

\* lines 447-462: getDoc resolves; a missing document returns false, a
\* ticker not listed returns true.
removeFromWatchlistRead(c, out) ==
  /\ task[c].kind = "removeFromWatchlist" /\ task[c].pc = "read"
  /\ LET userDoc == users[task[c].user] IN
     IF out = "fail" THEN Finish(c, "false", FALSE, FALSE)
     ELSE IF ~userDoc.exists THEN Finish(c, "false", FALSE, FALSE)
     ELSE IF ~Includes(userDoc.watchlist, task[c].ticker)
          THEN Finish(c, "true", FALSE, FALSE)
     ELSE /\ task' = [task EXCEPT ![c].pc = "write", ![c].userData = userDoc]
          /\ UNCHANGED event
  /\ GetDoc(c, out, users[task[c].user])
  /\ Awaited(c)
  /\ UNCHANGED <<users, predVars, otherVars>>

\* lines 465-475: setDoc of the filtered watchlist resolves.
removeFromWatchlistWrite(c, out) ==
  /\ task[c].kind = "removeFromWatchlist" /\ task[c].pc = "write"
  /\ IF out = "ok"
     THEN /\ users' = [users EXCEPT ![task[c].user] =
                         DocWithRemoved(task[c].userData, task[c].ticker)]
          /\ Finish(c, "true", TRUE, TRUE)
     ELSE /\ Finish(c, "false", TRUE, FALSE)
          /\ UNCHANGED users
  /\ SetDoc(c, out)
  /\ Awaited(c)
  /\ UNCHANGED <<predVars, otherVars>>

\* createUserDocument({uid, email, displayName}) is called: on every auth
\* state change with a signed-in user (App.js 66-81), on sign-up and from
\* HomeScreen; firestore.js lines 10-13.
createUserDocumentCalled(c, u) ==
  /\ task[c].kind = "none"
  /\ task' = [task EXCEPT ![c] =
                [Idle EXCEPT !.kind = "createUserDocument", !.pc = "set",
                             !.user = u]]
  /\ Called(c)
  /\ UNCHANGED <<users, event, storeVars, apiVars, toggle>>

\* createUserDocument called on its own.
createUserDocument(c, u) ==
  /\ createUserDocumentCalled(c, u)
  /\ UNCHANGED <<predVars, screenVars, watchlist, loadVars>>

\* firestore.js lines 23-36 and 56-68: the merging setDoc of attemptCreate
\* resolves; a failure is retried while retries < maxRetries - 1 and is
\* thrown to the caller afterwards.
createUserDocumentSet(c, out) ==
  /\ task[c].kind = "createUserDocument" /\ task[c].pc = "set"
  /\ IF out = "ok"
     THEN /\ users' = [users EXCEPT ![task[c].user] =
                         MergeUserDocument(@, CallerWatchlist)]
          /\ task' = [task EXCEPT ![c].pc = "verify"]
          /\ Wrote(c)
     ELSE /\ IF task[c].retries < maxRetries - 1
             THEN /\ task' = [task EXCEPT ![c].retries = @ + 1]
                  /\ UNCHANGED event
             ELSE Finish(c, "throw", FALSE, FALSE)
          /\ UNCHANGED users
  /\ SetDoc(c, out)
  /\ UNCHANGED <<predVars, restVars>>

\* The outcomes of the verifying getDoc: it finds the stored document, it
\* resolves with a snapshot whose exists() is false, or it is rejected.
VerifyOutcomes == {"ok", "missing", "fail"}

\* firestore.js lines 38-55: the verifying getDoc resolves.  Whether it
\* finds the document, finds none (the error thrown at line 47 is caught at
\* line 50) or fails, attemptCreate returns true.
createUserDocumentVerify(c, out) ==
  /\ task[c].kind = "createUserDocument" /\ task[c].pc = "verify"
  /\ Finish(c, "true", FALSE, TRUE)
  /\ IF out = "missing" THEN GetDoc(c, "ok", NoDoc)
     ELSE GetDoc(c, out, users[task[c].user])
  /\ UNCHANGED <<users, predVars, restVars>>

\* updateUserLastLogin(u) is called (SignInScreen.js 37); firestore.js 80-83.
updateUserLastLogin(c, u) ==
  /\ task[c].kind = "none"
  /\ task' = [task EXCEPT ![c] =
                [Idle EXCEPT !.kind = "updateUserLastLogin", !.pc = "set",
                             !.user = u]]
  /\ Called(c)
  /\ UNCHANGED <<users, event, predVars, restVars>>

\* firestore.js lines 84-101: the merging setDoc of attemptUpdate resolves;
\* a failure is retried while retries < maxRetries and is swallowed
\* afterwards.
updateUserLastLoginSet(c, out) ==
  /\ task[c].kind = "updateUserLastLogin" /\ task[c].pc = "set"
  /\ IF out = "ok"
     THEN /\ users' = [users EXCEPT ![task[c].user] = MergeLastLogin(@)]
          /\ Finish(c, "none", FALSE, TRUE)
     ELSE /\ IF task[c].retries < maxRetries
             THEN /\ task' = [task EXCEPT ![c].retries = @ + 1]
                  /\ UNCHANGED event
             ELSE Finish(c, "none", FALSE, FALSE)
          /\ UNCHANGED users
  /\ SetDoc(c, out)
  /\ UNCHANGED <<predVars, restVars>>

\* updateUserSubscription(u, isSubscribed, ...) is called; firestore.js
\* 117-120.
updateUserSubscription(c, u, isSubscribed) ==
  /\ task[c].kind = "none"
  /\ task' = [task EXCEPT ![c] =
                [Idle EXCEPT !.kind = "updateUserSubscription", !.pc = "set",
                             !.user = u, !.arg = isSubscribed]]
  /\ Called(c)
  /\ UNCHANGED <<users, event, predVars, restVars>>

\* firestore.js lines 121-144: the merging setDoc of attemptUpdate resolves;
\* a failure is retried while retries < maxRetries and is thrown afterwards.
updateUserSubscriptionSet(c, out) ==
  /\ task[c].kind = "updateUserSubscription" /\ task[c].pc = "set"
  /\ IF out = "ok"
     THEN /\ users' = [users EXCEPT ![task[c].user] =
                         MergeSubscription(@, task[c].arg)]
          /\ Finish(c, "none", FALSE, TRUE)
     ELSE /\ IF task[c].retries < maxRetries
             THEN /\ task' = [task EXCEPT ![c].retries = @ + 1]
                  /\ UNCHANGED event
             ELSE Finish(c, "throw", FALSE, FALSE)
          /\ UNCHANGED users
  /\ SetDoc(c, out)
  /\ UNCHANGED <<predVars, restVars>>

\* firebaseTest.js lines 103-111: fetchUserData(u) is called; an empty
\* userId returns {success: false} at once.
fetchUserDataCalled(c, u) ==
  /\ task[c].kind = "none"
  /\ IF u = NoUser
     THEN /\ event' = NoUserId("fetchUserData", u, 0)
          /\ UNCHANGED task
     ELSE /\ task' = [task EXCEPT ![c] =
                        [Idle EXCEPT !.kind = "fetchUserData", !.pc = "get",
                                     !.user = u]]
          /\ UNCHANGED event
  /\ Called(c)
  /\ UNCHANGED <<users, storeVars, apiVars, toggle>>

\* fetchUserData called on its own.
fetchUserData(c, u) ==
  /\ fetchUserDataCalled(c, u)
  /\ UNCHANGED <<predVars, screenVars, watchlist, loadVars>>

\* firebaseTest.js lines 113-150: the getDoc of attemptFetch resolves; the
\* result has success true when the document exists and false when it
\* does not, a failure is retried while retries < maxRetries - 1 and gives
\* success false afterwards.
fetchUserDataGet(c, out) ==
  /\ task[c].kind = "fetchUserData" /\ task[c].pc = "get"
  /\ IF out = "ok"
     THEN Finish(c, IF users[task[c].user].exists THEN "true" ELSE "false",
                 users[task[c].user].exists, FALSE)
     ELSE IF task[c].retries < maxRetries - 1
          THEN /\ task' = [task EXCEPT ![c].retries = @ + 1]
               /\ UNCHANGED event
          ELSE Finish(c, "false", FALSE, FALSE)
  /\ GetDoc(c, out, users[task[c].user])
  /\ UNCHANGED <<users, predVars, restVars>>

\* The operations with a retry loop, one at a time.
NextRetry ==
  \E c \in SeqClients :
    \/ \E u \in Users : createUserDocument(c, u)
    \/ \E out \in StoreOutcomes : createUserDocumentSet(c, out)
    \/ \E out \in VerifyOutcomes : createUserDocumentVerify(c, out)
    \/ \E u \in Users : updateUserLastLogin(c, u)
    \/ \E out \in StoreOutcomes : updateUserLastLoginSet(c, out)
    \/ \E u \in Users, b \in BOOLEAN : updateUserSubscription(c, u, b)
    \/ \E out \in StoreOutcomes : updateUserSubscriptionSet(c, out)
    \/ \E u \in Users \cup {NoUser} : fetchUserData(c, u)
    \/ \E out \in StoreOutcomes : fetchUserDataGet(c, out)

\* The watchlist operations of two handlers that run at the same time (two
\* taps, or two devices of one account): every await of one can be followed
\* by a step of the other.
NextRace ==
  \E c \in Clients :
    \/ \E u \in Users, t \in WatchTickers : addToWatchlist(c, u, t)
    \/ \E out \in StoreOutcomes : addToWatchlistRead(c, out)
    \/ \E out \in StoreOutcomes : addToWatchlistCreate(c, out)
    \/ \E out \in StoreOutcomes : addToWatchlistWrite(c, out)
    \/ \E u \in Users, t \in WatchTickers : removeFromWatchlist(c, u, t)
    \/ \E out \in StoreOutcomes : removeFromWatchlistRead(c, out)
    \/ \E out \in StoreOutcomes : removeFromWatchlistWrite(c, out)

\* auth.currentUser of the screen: a signed-in user.
CurrentUser == CHOOSE u \in Users : TRUE

\* HomeScreen.js lines 393 and 538: the buttons that call
\* handleToggleWatchlist(t) are the star on the card of t in the list of
\* held records, and the remove button of t in the watchlist of the profile
\* tab, which is shown with the user data held and not being loaded.
ToggleButton(t) ==
  \/ t \in TickersOf(predictions)
  \/ hooks.userData /\ ~hooks.userDataLoading /\ Includes(watchlist, t)

\* HomeScreen.js lines 298-316: handleToggleWatchlist(t) is called with a
\* user signed in.  It looks t up in the watchlist held in memory and calls
\* removeFromWatchlist or addToWatchlist, whose result it awaits.
handleToggleWatchlist(c, t) ==
  /\ ToggleButton(t)
  /\ toggle[c].pc = "idle" /\ load[c].kind = "none"
  /\ LET isInWatchlist == Includes(watchlist, t) IN
     /\ toggle' = [toggle EXCEPT ![c] =
                     [pc |-> "awaiting", ticker |-> t,
                      isInWatchlist |-> isInWatchlist]]
     /\ IF isInWatchlist
        THEN removeFromWatchlistCalled(c, CurrentUser, t)
        ELSE addToWatchlistCalled(c, CurrentUser, t)
  /\ UNCHANGED watchlist

\* The watchlist operations and the sign-in that calls createUserDocument,
\* one at a time.
NextWatchlist ==
  \E c \in SeqClients :
    \/ \E u \in Users \cup {NoUser}, t \in WatchTickers :
         addToWatchlist(c, u, t)
    \/ \E out \in StoreOutcomes : addToWatchlistRead(c, out)
    \/ \E out \in StoreOutcomes : addToWatchlistCreate(c, out)
    \/ \E out \in StoreOutcomes : addToWatchlistWrite(c, out)
    \/ \E u \in Users \cup {NoUser}, t \in WatchTickers :
         removeFromWatchlist(c, u, t)
    \/ \E out \in StoreOutcomes : removeFromWatchlistRead(c, out)
    \/ \E out \in StoreOutcomes : removeFromWatchlistWrite(c, out)
    \/ \E u \in Users : createUserDocument(c, u)
    \/ \E out \in StoreOutcomes : createUserDocumentSet(c, out)
    \/ \E out \in StoreOutcomes : createUserDocumentVerify(c, out)

\* The user-record operations, one at a time.
NextUsers ==
  \E c \in SeqClients :
    \/ \E u \in Users \cup {NoUser}, t \in WatchTickers :
         addToWatchlist(c, u, t)
    \/ \E out \in StoreOutcomes : addToWatchlistRead(c, out)
    \/ \E out \in StoreOutcomes : addToWatchlistCreate(c, out)
    \/ \E out \in StoreOutcomes : addToWatchlistWrite(c, out)
    \/ \E u \in Users \cup {NoUser}, t \in WatchTickers :
         removeFromWatchlist(c, u, t)
    \/ \E out \in StoreOutcomes : removeFromWatchlistRead(c, out)
    \/ \E out \in StoreOutcomes : removeFromWatchlistWrite(c, out)
    \/ \E u \in Users : createUserDocument(c, u)
    \/ \E out \in StoreOutcomes : createUserDocumentSet(c, out)
    \/ \E out \in StoreOutcomes : createUserDocumentVerify(c, out)
    \/ \E u \in Users : updateUserLastLogin(c, u)
    \/ \E out \in StoreOutcomes : updateUserLastLoginSet(c, out)
    \/ \E u \in Users, b \in BOOLEAN : updateUserSubscription(c, u, b)
    \/ \E out \in StoreOutcomes : updateUserSubscriptionSet(c, out)

\* ===================================================== concurrent refreshes
\* Two clients fetch and store predictions of the same collection: the loop
\* body of fetchAndStorePredictions (lines 182-191) per client, the store
\* applying the setDoc calls in the order it receives them.

\* No fetch-and-store in progress.
NoRefresh == [pc |-> "idle", prediction |-> Absent, ret |-> FALSE]

\* No setDoc accepted yet.
NoWrite == [client |-> 0, at |-> NoTime]

\* A document of the collection that another writer (the scheduled update
\* script) stored with a field storePrediction does not write.
ScriptDoc(t) ==
  [ticker |-> t, src |-> "cron", lastUpdated |-> [shape |-> "string", t |-> 0],
   storedAt |-> NoTime, extra |-> TRUE]

InitRefresh ==
  /\ refresh = [c \in Clients |-> NoRefresh]
  /\ applied = [t \in Tickers |-> NoWrite]

\* lines 182-188: fetchStockPrediction(t) of client c resolves with a
\* record and storePrediction is called with it.
fetchAndStorePredictions(c, t) ==
  /\ refresh[c].pc = "idle"
  /\ refresh' = [refresh EXCEPT ![c] =
                   [pc |-> "store", prediction |-> ApiRecord(t, now),
                    ret |-> FALSE]]
  /\ UNCHANGED <<applied, predVars, userVars, homeVars, apiVars>>

\* lines 216-261: the setDoc of client c's storePrediction reaches the
\* store and resolves; storePrediction returns true, or false when the
\* write is rejected.
storePrediction(c, wo) ==
  /\ refresh[c].pc = "store"
  /\ LET p == refresh[c].prediction IN
     IF wo = "ok"
     THEN /\ predStore' = [predStore EXCEPT ![p.ticker] =
                             SetDocument(@, PredictionToStore(p, now))]
          /\ applied' = [applied EXCEPT ![p.ticker] =
                           [client |-> c, at |-> now]]
     ELSE UNCHANGED <<predStore, applied>>
  /\ refresh' = [refresh EXCEPT ![c].pc = "done", ![c].ret = (wo = "ok")]
  /\ UNCHANGED <<now, call, userVars, homeVars, apiVars>>

\* lines 189-191: the loop body of client c ends.
storePredictionReturn(c) ==
  /\ refresh[c].pc = "done"
  /\ refresh' = [refresh EXCEPT ![c] = NoRefresh]
  /\ UNCHANGED <<applied, predVars, userVars, homeVars, apiVars>>

InitStore ==
  /\ now = 0
  /\ predStore = [t \in Tickers |-> ScriptDoc(t)]
  /\ call = [k \in Calls |-> NoCall]
  /\ InitUsers /\ InitRefresh

NextStore ==
  \/ \E d \in TickSteps : Tick(d)
  \/ \E c \in Clients, t \in Tickers : fetchAndStorePredictions(c, t)
  \/ \E c \in Clients, wo \in WriteOutcomes : storePrediction(c, wo)
  \/ \E c \in Clients : storePredictionReturn(c)

\* ================================================================ HomeScreen
\* (tikr-mobile/src/screens/HomeScreen.js)  Every fetchPredictionsData call
\* makes one fetchLatestPredictions call; the calls of the focus effect, of
\* the pull to refresh and of the refresh button can overlap, as nothing
\* makes fetchPredictionsData wait for a call in progress.

\* No fetchPredictionsData call for this fetchLatestPredictions call; client
\* is the handler in progress (loadInitialData or onRefresh) that awaits the
\* call, 0 when the caller does nothing after it.
NoRequest == [pc |-> "idle", by |-> "none", client |-> 0]

\* No alert of fetchPredictionsData shown; request is the call whose result
\* raised the alert.
NoAlert == [text |-> "none", request |-> 0]

\* No loadInitialData, onRefresh or handleFetchUserData call in progress.
NoLoad == [kind |-> "none", pc |-> "idle"]

\* lines 38-48: the state hooks as useState creates them; userData is TRUE
\* when user data is held and FALSE for null.
NoHooks == [refreshing |-> FALSE, isForceRefreshing |-> FALSE,
            userData |-> FALSE, userDataLoading |-> FALSE]

RECURSIVE Oldest(_, _)
\* lines 689-693: predictions.reduce over the held records, starting from
\* now and keeping the earlier date.
Oldest(held, oldest) ==
  IF held = <<>> THEN oldest
  ELSE Oldest(Tail(held),
              IF Head(held).lastUpdated < oldest
              THEN Head(held).lastUpdated ELSE oldest)

\* faulty variant of line 699: a record exactly one hour old is stale.
shouldRefreshPredictionsInclusive(held, clock) ==
  \/ Len(held) = 0
  \/ clock - Oldest(held, clock) >= 1

\* lines 684-700: hoursSinceUpdate > 1, or nothing held.
shouldRefreshPredictions(held, clock) ==
  \/ Len(held) = 0
  \/ clock - Oldest(held, clock) > 1

\* faulty variant of line 57: the focus effect forces the refresh.
FocusForcing == TRUE

\* line 57: fetchPredictionsData(false).
FocusForceRefresh == FALSE

InitHome ==
  /\ predictions = <<>>
  /\ alert = NoAlert
  /\ request = [k \in Calls |-> NoRequest]
  /\ hint = "none"
  /\ watchlist = <<>>
  /\ toggle = [c \in Clients |-> NoToggle]
  /\ load = [c \in Clients |-> NoLoad]
  /\ hooks = NoHooks

\* lines 137-154: fetchPredictionsData(force) is called by handler by (of
\* client c, or 0), which has left the hooks as h.  A forcing call sets
\* isForceRefreshing (line 140); fetchLatestPredictions(20, force), the
\* call k, is called and its result awaited.
fetchPredictionsDataCalled(k, by, c, force, h) ==
  /\ NextCall(k)
  /\ call' = [call EXCEPT ![k] = Started(force, now)]
  /\ request' = [request EXCEPT
                   ![k] = [pc |-> "calling", by |-> by, client |-> c]]
  /\ hooks' = [h EXCEPT !.isForceRefreshing = @ \/ force]
  /\ UNCHANGED <<envVars, predictions, alert, hint, toggle, storeVars,
                 apiVars>>

\* lines 52-60: the screen gets the focus; stale or missing records start
\* a request.
focusEffect(k) ==
  /\ shouldRefreshPredictions(predictions, now)
  /\ fetchPredictionsDataCalled(k, "focus", 0, FocusForceRefresh, hooks)
  /\ UNCHANGED <<watchlist, load, userVars>>

\* lines 645-660: the list, and with it the pull to refresh, is shown when
\* records are held; the RefreshControl takes no pull while refreshing.
RefreshControl == Len(predictions) > 0 /\ ~hooks.refreshing

\* lines 117-121: the list is pulled down; onRefresh, the handler of client
\* c, sets refreshing and calls fetchPredictionsData(false), whatever the
\* age of the held records.  It goes on when that call returns
\* (fetchPredictionsDataReturn).
onRefresh(c, k) ==
  /\ RefreshControl
  /\ load[c].kind = "none" /\ toggle[c].pc = "idle"
  /\ load' = [load EXCEPT ![c] = [kind |-> "onRefresh", pc |-> "predictions"]]
  /\ fetchPredictionsDataCalled(k, "refresh", c, FALSE,
                                [hooks EXCEPT !.refreshing = TRUE])
  /\ UNCHANGED <<watchlist, userVars>>

\* lines 626-627: the refresh button, disabled while isForceRefreshing,
\* calls fetchPredictionsData(true).
forceRefreshPressed(k) ==
  /\ ~hooks.isForceRefreshing
  /\ fetchPredictionsDataCalled(k, "button", 0, TRUE, hooks)
  /\ UNCHANGED <<watchlist, load, userVars>>

\* lines 216-220 and what the caller of fetchPredictionsData does when the
\* call k returns: a forcing call resets isForceRefreshing; onRefresh goes
\* on, with a user signed in, to handleFetchUserData (lines 123-124 and
\* 232-241), which sets userDataLoading and calls fetchUserData(uid);
\* loadInitialData ends (line 78); the focus effect and the button do
\* nothing more.
fetchPredictionsDataReturned(k) ==
  LET c == request[k].client
      h == [hooks EXCEPT !.isForceRefreshing = @ /\ ~call[k].forceRefresh]
  IN  IF request[k].by = "refresh"
      THEN /\ hooks' = [h EXCEPT !.userDataLoading = TRUE]
           /\ load' = [load EXCEPT ![c].pc = "fetchUserData"]
           /\ fetchUserDataCalled(c, CurrentUser)
      ELSE /\ hooks' = h
           /\ load' = IF request[k].by = "initial"
                      THEN [load EXCEPT ![c] = NoLoad] ELSE load
           /\ UNCHANGED <<userVars, storeVars, apiVars, toggle>>

\* faulty variant of lines 156-164: an empty result clears the held
\* records.
fetchPredictionsDataReturnClearing(k) ==
  /\ request[k].pc = "calling" /\ call[k].pc = "done"
  /\ IF call[k].raised
     THEN /\ alert' = [text |-> "Error", request |-> k]
          /\ UNCHANGED predictions
     ELSE IF Len(call[k].result) = 0
     THEN /\ alert' = [text |-> "No Data Available", request |-> k]
          /\ predictions' = <<>>
     ELSE predictions' = call[k].result /\ UNCHANGED alert
  /\ request' = [request EXCEPT ![k].pc = "returned"]
  /\ fetchPredictionsDataReturned(k)
  /\ UNCHANGED <<hint, watchlist, predVars>>

\* lines 154-221: the fetchLatestPredictions call k has returned (or
\* thrown) to the fetchPredictionsData call that made it.  No record gives
\* the alert 'No Data Available' and keeps the held records; otherwise the
\* returned records replace them, whichever call fetched the newer ones.
\* fetchPredictionsData returns and its caller goes on in the same task.
fetchPredictionsDataReturn(k) ==
  /\ request[k].pc = "calling" /\ call[k].pc = "done"
  /\ IF call[k].raised
     THEN /\ alert' = [text |-> "Error", request |-> k]
          /\ UNCHANGED predictions
     ELSE IF Len(call[k].result) = 0
     THEN /\ alert' = [text |-> "No Data Available", request |-> k]
          /\ UNCHANGED predictions
     ELSE predictions' = call[k].result /\ UNCHANGED alert
  /\ request' = [request EXCEPT ![k].pc = "returned"]
  /\ fetchPredictionsDataReturned(k)
  /\ UNCHANGED <<hint, watchlist, predVars>>

\* Time passes while the screen is shown, up to HomeMaxNow.
HomeTick(d) ==
  /\ now + d <= HomeMaxNow
  /\ Tick(d)

\* ---------------------------------------------- user data and the watchlist
\* handleFetchUserData (lines 232-296) and the handlers that await it and
\* then read the stored watchlist: loadInitialData (lines 62-78) and
\* onRefresh (lines 117-129), with a user signed in.  Client c is a handler
\* in progress; its user-record operation is task[c].

\* lines 241-251 and 283-290: handleFetchUserData of client c returns, the
\* user data (success: setUserData, lines 243 and 268) or null; its finally
\* resets userDataLoading.  loadInitialData and onRefresh go on with
\* fetchWatchlist(uid), whose getDoc they await.
AfterUserData(c, success) ==
  /\ load' = [load EXCEPT ![c] =
                IF load[c].kind = "handleFetchUserData" THEN NoLoad
                ELSE [load[c] EXCEPT !.pc = "fetchWatchlist"]]
  /\ hooks' = [hooks EXCEPT !.userData = @ \/ success,
                            !.userDataLoading = FALSE]

\* lines 232-241: handleFetchUserData is called by handler kind of client
\* c; it sets userDataLoading and calls fetchUserData(uid).
handleFetchUserDataCalled(c, kind) ==
  /\ load[c].kind = "none" /\ toggle[c].pc = "idle"
  /\ load' = [load EXCEPT ![c] = [kind |-> kind, pc |-> "fetchUserData"]]
  /\ hooks' = [hooks EXCEPT !.userDataLoading = TRUE]
  /\ fetchUserDataCalled(c, CurrentUser)

\* lines 506-555: the button of the profile tab, shown while no user data
\* is held or being loaded, calls handleFetchUserData.
handleFetchUserData(c) ==
  /\ ~hooks.userDataLoading /\ ~hooks.userData
  /\ handleFetchUserDataCalled(c, "handleFetchUserData")
  /\ UNCHANGED <<watchlist, predVars, screenVars>>

\* lines 62-69 and 85: loadInitialData runs once, when the screen is
\* mounted, and calls handleFetchUserData.
loadInitialData(c) ==
  /\ \A k \in Calls : request[k].by # "initial"
  /\ handleFetchUserDataCalled(c, "loadInitialData")
  /\ UNCHANGED <<watchlist, predVars, screenVars>>

\* lines 241-263: fetchUserData has returned to handleFetchUserData of
\* client c.  'User document does not exist' makes it call
\* createUserDocument with an empty watchlist; with the user data or any
\* other failure it returns.
handleFetchUserDataFetched(c) ==
  /\ load[c].pc = "fetchUserData" /\ task[c].kind = "none"
  /\ IF calls[c].missing
     THEN /\ load' = [load EXCEPT ![c].pc = "createUserDocument"]
          /\ createUserDocumentCalled(c, CurrentUser)
          /\ UNCHANGED hooks
     ELSE /\ AfterUserData(c, calls[c].found)
          /\ UNCHANGED <<userVars, storeVars, apiVars, toggle>>
  /\ UNCHANGED <<watchlist, predVars, screenVars>>

\* lines 256-277: createUserDocument has returned to handleFetchUserData of
\* client c, which calls fetchUserData again, or has thrown, which is
\* caught (every setDoc was rejected and no verifying getDoc was made).
handleFetchUserDataCreated(c) ==
  /\ load[c].pc = "createUserDocument" /\ task[c].kind = "none"
  /\ IF calls[c].reads = 0
     THEN /\ AfterUserData(c, FALSE)
          /\ UNCHANGED <<userVars, storeVars, apiVars, toggle>>
     ELSE /\ load' = [load EXCEPT ![c].pc = "fetchUserDataAgain"]
          /\ fetchUserDataCalled(c, CurrentUser)
          /\ UNCHANGED hooks
  /\ UNCHANGED <<watchlist, predVars, screenVars>>

\* lines 266-284: the second fetchUserData has returned; handleFetchUserData
\* returns.
handleFetchUserDataRefetched(c) ==
  /\ load[c].pc = "fetchUserDataAgain" /\ task[c].kind = "none"
  /\ AfterUserData(c, calls[c].found)
  /\ UNCHANGED <<watchlist, predVars, screenVars, userVars, storeVars,
                 apiVars, toggle>>

\* predictions.js lines 487-509: what fetchWatchlist returns when its getDoc
\* resolves with outcome out and snapshot userDoc.
FetchedWatchlist(out, userDoc) ==
  IF out = "ok" /\ userDoc.exists THEN userDoc.watchlist ELSE <<>>

\* lines 127-133 with predictions.js 487-509: the getDoc of fetchWatchlist
\* resolves for onRefresh of client c; setWatchlist replaces the watchlist
\* held in memory by the returned one, and onRefresh ends by resetting
\* refreshing.
onRefreshWatchlist(c, out) ==
  /\ load[c].kind = "onRefresh" /\ load[c].pc = "fetchWatchlist"
  /\ watchlist' = FetchedWatchlist(out, users[CurrentUser])
  /\ load' = [load EXCEPT ![c] = NoLoad]
  /\ hooks' = [hooks EXCEPT !.refreshing = FALSE]
  /\ UNCHANGED <<toggle, predVars, screenVars, userVars, storeVars, apiVars>>

\* lines 72-77 with predictions.js 487-509: the getDoc of fetchWatchlist
\* resolves for loadInitialData of client c; setWatchlist replaces the
\* watchlist held in memory, and fetchPredictionsData(false) is called,
\* which makes the call k.
loadInitialDataWatchlist(c, k, out) ==
  /\ load[c].kind = "loadInitialData" /\ load[c].pc = "fetchWatchlist"
  /\ watchlist' = FetchedWatchlist(out, users[CurrentUser])
  /\ load' = [load EXCEPT ![c].pc = "predictions"]
  /\ fetchPredictionsDataCalled(k, "initial", c, FALSE, hooks)
  /\ UNCHANGED userVars

\* The requests of the shown screen: the focus effect, the refresh button
\* and the pull to refresh, whose handler goes on to the user data and the
\* watchlist when its request has returned.
NextHome ==
  \/ \E d \in TickSteps : HomeTick(d)
  \/ \E k \in Calls : focusEffect(k)
  \/ \E c \in Clients, k \in Calls : onRefresh(c, k)
  \/ \E k \in Calls : forceRefreshPressed(k)
  \/ \E k \in Calls, out \in ReadOutcomes : CacheReadStep(k, out)
  \/ \E k \in Calls, fo \in FetchOutcomes : FetchResolved(k, fo)
  \/ \E k \in Calls, wo \in WriteOutcomes : StoreResolved(k, wo)
  \/ \E k \in Calls : fetchPredictionsDataReturn(k)
  \/ \E c \in Clients, out \in StoreOutcomes : fetchUserDataGet(c, out)
  \/ \E c \in Clients : handleFetchUserDataFetched(c)
  \/ \E c \in Clients, out \in StoreOutcomes : createUserDocumentSet(c, out)
  \/ \E c \in Clients, out \in VerifyOutcomes :
       createUserDocumentVerify(c, out)
  \/ \E c \in Clients : handleFetchUserDataCreated(c)
  \/ \E c \in Clients : handleFetchUserDataRefetched(c)
  \/ \E c \in Clients, out \in StoreOutcomes : onRefreshWatchlist(c, out)

\* The watchlist buttons of the screen, the pull to refresh and the button
\* of the profile tab: a tap calls the handler, and a second tap can do so
\* before the first call has completed.  The store of predictions is
\* readable here: the call of the pull is served from the records the mount
\* has stored.
NextToggle ==
  \/ \E c \in Clients, t \in WatchTickers : handleToggleWatchlist(c, t)
  \/ \E c \in Clients, out \in StoreOutcomes : addToWatchlistRead(c, out)
  \/ \E c \in Clients, out \in StoreOutcomes : addToWatchlistCreate(c, out)
  \/ \E c \in Clients, out \in StoreOutcomes : addToWatchlistWrite(c, out)
  \/ \E c \in Clients, out \in StoreOutcomes : removeFromWatchlistRead(c, out)
  \/ \E c \in Clients, out \in StoreOutcomes :
       removeFromWatchlistWrite(c, out)
  \/ \E c \in Clients : handleFetchUserData(c)
  \/ \E c \in Clients, k \in Calls : onRefresh(c, k)
  \/ \E k \in Calls : CacheReadStep(k, "ok")
  \/ \E k \in Calls : fetchPredictionsDataReturn(k)
  \/ \E c \in Clients, out \in StoreOutcomes : fetchUserDataGet(c, out)
  \/ \E c \in Clients : handleFetchUserDataFetched(c)
  \/ \E c \in Clients, out \in StoreOutcomes : createUserDocumentSet(c, out)
  \/ \E c \in Clients, out \in VerifyOutcomes :
       createUserDocumentVerify(c, out)
  \/ \E c \in Clients : handleFetchUserDataCreated(c)
  \/ \E c \in Clients : handleFetchUserDataRefetched(c)
  \/ \E c \in Clients, out \in StoreOutcomes : onRefreshWatchlist(c, out)

\* -------------------------------------------------------------- the mount
\* Both effects run when the screen is mounted: the focus effect calls
\* fetchPredictionsData(false) at once, loadInitialData after the user data
\* and the watchlist have been read.  Nothing makes one call wait for the
\* other, so every await of one can be followed by a step of the other.
\* The client of loadInitialData.
Mounting == 1

NextMount ==
  \/ \E k \in Calls : focusEffect(k)
  \/ loadInitialData(Mounting)
  \/ \E out \in StoreOutcomes : fetchUserDataGet(Mounting, out)
  \/ handleFetchUserDataFetched(Mounting)
  \/ \E out \in StoreOutcomes : createUserDocumentSet(Mounting, out)
  \/ \E out \in VerifyOutcomes : createUserDocumentVerify(Mounting, out)
  \/ handleFetchUserDataCreated(Mounting)
  \/ handleFetchUserDataRefetched(Mounting)
  \/ \E k \in Calls, out \in StoreOutcomes :
       loadInitialDataWatchlist(Mounting, k, out)
  \/ \E k \in Calls, out \in ReadOutcomes : CacheReadStep(k, out)
  \/ \E k \in Calls, fo \in FetchOutcomes : FetchResolved(k, fo)
  \/ \E k \in Calls, wo \in WriteOutcomes : StoreResolved(k, wo)
  \/ \E k \in Calls : fetchPredictionsDataReturn(k)

\* ------------------------------------------------------ the staleness hint
\* shouldRefreshPredictions over held records of every age around one hour.
HintNow == MaxNow \div 2
HintInstants == (HintNow - 3)..(HintNow + 1)

\* The held lists: a record per ticker 1..n, each with its own lastUpdated.
HeldLists ==
  UNION {{[k \in 1..n |-> ApiRecord(k, f[k])] : f \in [1..n -> HintInstants]} :
           n \in 0..NumTickers}

InitHint ==
  /\ now = HintNow
  /\ predStore = [t \in Tickers |-> Absent]
  /\ call = [k \in Calls |-> NoCall]
  /\ InitUsers /\ InitRefresh
  /\ predictions \in HeldLists
  /\ alert = NoAlert
  /\ request = [k \in Calls |-> NoRequest]
  /\ hint = "none"
  /\ watchlist = <<>>
  /\ toggle = [c \in Clients |-> NoToggle]
  /\ load = [c \in Clients |-> NoLoad]
  /\ hooks = NoHooks

\* shouldRefreshPredictions() is computed for the held records.
shouldRefreshPredictionsCall ==
  /\ hint = "none"
  /\ hint' = IF shouldRefreshPredictions(predictions, now)
             THEN "stale" ELSE "fresh"
  /\ UNCHANGED <<predictions, alert, request, toggleVars, loadVars,
                 predVars, userVars, storeVars, apiVars>>

NextHint ==
  \/ shouldRefreshPredictionsCall
  \/ \E k \in Calls : focusEffect(k)

\* ====================================================== fetchStockPrediction
\* (predictions.js lines 269-378)  The response of POST /predict is a JSON
\* value; prices are whole numbers, for which toFixed(2) followed by
\* parseFloat gives the number back.

\* A JSON value of kind number (n), string (s), null, array (a) or the
\* undefined of a missing field.
Value(kind, n, s, a) == [kind |-> kind, n |-> n, s |-> s, a |-> a]
Undefined == Value("undefined", 0, "", <<>>)
Null == Value("null", 0, "", <<>>)
Num(n) == Value("number", n, "", <<>>)
Str(s) == Value("string", 0, s, <<>>)
Arr(a) == Value("array", 0, "", a)

\* A JavaScript number: NaN or a value.
NaN == [nan |-> TRUE, v |-> 0]
Number(n) == [nan |-> FALSE, v |-> n]

\* The strings of the responses, and the one that is a numeral.
Strings == {"", "bad", "103"}
IsNumeral(s) == s = "103"
NumeralValue(s) == IF s = "103" THEN 103 ELSE 0

\* Number(s) of a string: the empty string is 0, a numeral its value, any
\* other string NaN.
StringToNumber(s) ==
  IF s = "" THEN Number(0)
  ELSE IF IsNumeral(s) THEN Number(NumeralValue(s)) ELSE NaN

\* String(x) of an array element that is not a number, as
\* Array.prototype.toString joins them: null and undefined give the empty
\* string.
ElementString(x) == IF x.kind = "string" THEN x.s ELSE ""

\* faulty variant of line 323: a conversion that gives NaN for every array.
ToNumberNoArrays(p) ==
  CASE p.kind = "number" -> Number(p.n)
    [] p.kind = "string" -> StringToNumber(p.s)
    [] p.kind = "null" -> Number(0)
    [] OTHER -> NaN

\* Number(p), line 323: null and the empty string are 0, an array converts
\* through its string (empty: 0, one element: that element, more: NaN).
ToNumber(p) ==
  CASE p.kind = "number" -> Number(p.n)
    [] p.kind = "string" -> StringToNumber(p.s)
    [] p.kind = "null" -> Number(0)
    [] p.kind = "undefined" -> NaN
    [] p.kind = "array" ->
         IF Len(p.a) = 0 THEN Number(0)
         ELSE IF Len(p.a) > 1 THEN NaN
         ELSE IF p.a[1].kind = "number" THEN Number(p.a[1].n)
         ELSE StringToNumber(ElementString(p.a[1]))

\* parseFloat of a string: a numeral gives its value, anything else (the
\* empty string included) NaN.
ParseFloatString(s) == IF IsNumeral(s) THEN Number(NumeralValue(s)) ELSE NaN

\* parseFloat(x), lines 290-299: converts x to a string and parses its
\* numeric prefix; of an array that is the prefix of its first element.
ParseFloat(x) ==
  CASE x.kind = "number" -> Number(x.n)
    [] x.kind = "string" -> ParseFloatString(x.s)
    [] x.kind = "null" -> NaN
    [] x.kind = "undefined" -> NaN
    [] x.kind = "array" ->
         IF Len(x.a) = 0 THEN NaN
         ELSE IF x.a[1].kind = "number" THEN Number(x.a[1].n)
         ELSE ParseFloatString(ElementString(x.a[1]))

\* if (x): the truthiness of a value.
Truthy(x) ==
  CASE x.kind = "number" -> x.n # 0
    [] x.kind = "string" -> x.s # ""
    [] x.kind = "null" -> FALSE
    [] x.kind = "undefined" -> FALSE
    [] x.kind = "array" -> TRUE

\* lines 287-302: the current price of the response, or none.
HasCurrentPrice(data) ==
  \/ Truthy(data.current_price)
  \/ Truthy(data.stock_data_current_price)
  \/ Len(data.predictions) > 0

CurrentPrice(data) ==
  IF Truthy(data.current_price) THEN ParseFloat(data.current_price)
  ELSE IF Truthy(data.stock_data_current_price)
       THEN ParseFloat(data.stock_data_current_price)
  ELSE ParseFloat(data.predictions[1])

\* lines 305-311: an array of arrays is flattened to the first elements.
Flatten(ps) ==
  IF Len(ps) > 0 /\ ps[1].kind = "array"
  THEN [k \in 1..Len(ps) |->
          IF ps[k].kind = "array" /\ Len(ps[k].a) > 0
          THEN ps[k].a[1] ELSE ps[k]]
  ELSE ps

\* lines 322-325: every element becomes Number(p), or the current price
\* when that is NaN.
NumericPredictions(ps, currentPrice) ==
  [k \in 1..Len(ps) |->
     IF ToNumber(ps[k]).nan THEN currentPrice ELSE ToNumber(ps[k])]

\* Some number of the sequence is NaN.
AnyNaN(nums) == \E k \in 1..Len(nums) : nums[k].nan

RECURSIVE Sum(_)
\* line 329: reduce((sum, val) => sum + val, 0) over numbers that are not NaN
Sum(nums) == IF nums = <<>> THEN 0 ELSE Head(nums).v + Sum(Tail(nums))

RECURSIVE SumSq(_)
\* the sum of the squares of the numbers
SumSq(nums) ==
  IF nums = <<>> THEN 0 ELSE Head(nums).v * Head(nums).v + SumSq(Tail(nums))

\* A quotient of two whole numbers, kept exact; NaN when an operand is.
NoQuotient == [nan |-> TRUE, num |-> 0, den |-> 1]
Quotient(num, den) == [nan |-> FALSE, num |-> num, den |-> den]

\* lines 328-330: the average of the numeric predictions (their sum over
\* their number).
AvgPrediction(nums) ==
  IF AnyNaN(nums) THEN NoQuotient ELSE Quotient(Sum(nums), Len(nums))

\* n * n * variance of the numbers (line 343): n * sum of squares - sum ^ 2.
Dispersion(nums) == Len(nums) * SumSq(nums) - Sum(nums) * Sum(nums)

\* floor(x * x / 2000 ^ 2) for x >= 0, computed in parts that stay small.
SquareOver(x) ==
  LET q == x \div 2000
      r == x % 2000
  IN  q * q + ((4000 * q * r + r * r) \div 4000000)

\* Hundredths the confidence is clamped to, line 348.
MinConfidence == 30
MaxConfidence == 95
\* line 339: the default, in hundredths
DefaultConfidence == 50

\* A confidence in hundredths, as toFixed(2) of line 358 rounds the double
\* of line 348: lo = hi, except where the exact value lies halfway between
\* two hundredths.  There the double is the exact value with the rounding
\* errors of lines 329-348, toFixed(2) takes the side it falls on, and the
\* confidence is one of lo and hi = lo + 1 (0.82 for [407, 393], 0.88 for
\* [81, 79]).
Hundredths(lo, hi) == [nan |-> FALSE, lo |-> lo, hi |-> hi]
NoHundredths == [nan |-> TRUE, lo |-> 0, hi |-> 0]

\* The exact value of 1 - normalizedStdDev * 10 is above k - 1/2
\* hundredths, for a positive sum s and d = Dispersion:
\* 100 - 1000 * sqrt(d) / s > k - 1/2.
Above(k, s, d) ==
  LET x == (201 - 2 * k) * s
  IN  d < SquareOver(x) \/ (d = SquareOver(x) /\ x % 2000 # 0)

\* The exact value is k - 1/2 hundredths: 2000 * sqrt(d) = (201 - 2k) * s.
Halfway(k, s, d) ==
  LET x == (201 - 2 * k) * s
  IN  d = SquareOver(x) /\ x % 2000 = 0

\* lines 340-348 and 358: the confidence of a sequence of more than one
\* element, max(0.3, min(0.95, 1 - stdDev / mean * 10)) in hundredths.
ConfidenceOfSeveral(nums) ==
  IF AnyNaN(nums) THEN NoHundredths
  ELSE LET s == Sum(nums)
           d == Dispersion(nums)
       IN  IF s = 0
           THEN (IF d = 0 THEN NoHundredths
                 ELSE Hundredths(MinConfidence, MinConfidence))
           ELSE IF s < 0 THEN Hundredths(MaxConfidence, MaxConfidence)
           ELSE LET ks == {k \in MinConfidence..MaxConfidence :
                            Above(k, s, d)}
                    lo == IF ks = {} THEN MinConfidence
                          ELSE CHOOSE k \in ks : \A j \in ks : j <= k
                IN  IF lo < MaxConfidence /\ Halfway(lo + 1, s, d)
                    THEN Hundredths(lo, lo + 1)
                    ELSE Hundredths(lo, lo)

\* lines 339-349 and 358: the confidence in hundredths.  One element gives
\* the default; several give a value that is NaN when the mean and the
\* deviation are both 0, 0.3 when only the mean is 0, and 0.95 when the
\* mean is negative.
Confidence(nums) ==
  IF Len(nums) <= 1 THEN Hundredths(DefaultConfidence, DefaultConfidence)
  ELSE ConfidenceOfSeveral(nums)

\* No call made yet.
NoPrediction == [status |-> "none", error |-> "", currentPrice |-> NaN,
                 rawPredictions |-> <<>>, avgPrediction |-> NoQuotient,
                 confidence |-> NoHundredths]

\* lines 369-377: the error thrown to the caller.
Thrown(error) == [status |-> "throw", error |-> error, currentPrice |-> NaN,
                  rawPredictions |-> <<>>, avgPrediction |-> NoQuotient,
                  confidence |-> NoHundredths]

\* lines 322-365: the record built from the current price and the
\* flattened predictions.
Record(currentPrice, ps) ==
  LET numericPredictions == NumericPredictions(ps, currentPrice) IN
  [status |-> "ok", error |-> "",
   currentPrice |-> currentPrice,
   rawPredictions |-> numericPredictions,
   avgPrediction |-> AvgPrediction(numericPredictions),
   confidence |-> Confidence(numericPredictions)]

\* lines 287-366: the record built from the response, or the error.
PredictionObject(data) ==
  IF ~HasCurrentPrice(data) THEN Thrown("No current price available")
  ELSE IF Len(Flatten(data.predictions)) = 0
       THEN Thrown("No predictions returned from API")
  ELSE Record(CurrentPrice(data), Flatten(data.predictions))

\* The responses: the forecast holds up to MaxForecast elements.
ForecastElements ==
  {Num(101), Null, Arr(<<Num(102)>>), Arr(<<Str("bad")>>), Arr(<<>>)}
    \cup {Str(s) : s \in Strings}

Forecasts == UNION {[1..n -> ForecastElements] : n \in 0..MaxForecast}

Responses ==
  [current_price : {Undefined, Num(100), Num(0), Str("bad")},
   stock_data_current_price : {Undefined, Num(100)},
   predictions : Forecasts]

InitApi ==
  /\ apiData = [current_price |-> Undefined,
                stock_data_current_price |-> Undefined, predictions |-> <<>>]
  /\ predictionObject = NoPrediction

InitResponses ==
  /\ apiData \in Responses
  /\ predictionObject = NoPrediction

\* fetchStockPrediction(ticker): the response has arrived and the record is
\* returned or the error thrown.
fetchStockPrediction ==
  /\ predictionObject.status = "none"
  /\ predictionObject' = PredictionObject(apiData)
  /\ UNCHANGED <<apiData, predVars, userVars, storeVars, homeVars>>

NextApi == fetchStockPrediction

\* ========================================================= specifications
InitRest == InitUsers /\ InitRefresh /\ InitHome /\ InitApi

Init == InitPred /\ InitRest

InitStoreRest == InitStore /\ InitHome /\ InitApi

SpecStore == InitStoreRest /\ [][NextStore]_vars

SpecHome == Init /\ [][NextHome]_vars

InitHintRest == InitHint /\ InitApi

SpecHint == InitHintRest /\ [][NextHint]_vars

InitApiRest ==
  InitPred /\ InitUsers /\ InitRefresh /\ InitHome /\ InitResponses

SpecApi == InitApiRest /\ [][NextApi]_vars

Spec == Init /\ [][Next]_vars

SpecUsers == Init /\ [][NextUsers]_vars

SpecWatchlist == Init /\ [][NextWatchlist]_vars

SpecRetry == Init /\ [][NextRetry]_vars

SpecRace == Init /\ [][NextRace]_vars

\* The mounted screen: states the mount reaches (SpecMount) when the focus
\* effect has not run.  loadInitialData found the store of predictions
\* empty; its call read every ticker, fetched and stored each at hour 0,
\* and the records are held.  The user data is held when fetchUserData
\* found no document, createUserDocument wrote it and the second
\* fetchUserData returned it; it is null, and no document exists, when
\* every getDoc of fetchUserData failed.
MountedRecords == [t \in Tickers |-> ApiRecord(t, 0)]

MountedCall ==
  [NoCall EXCEPT !.pc = "done", !.result = MountedRecords,
                 !.apiPredictions = MountedRecords,
                 !.readCount = [t \in Tickers |-> 1],
                 !.fetchCount = [t \in Tickers |-> 1],
                 !.fetchOk = Tickers,
                 !.fetchedAt = [t \in Tickers |-> 0],
                 !.storeAttempts = [t \in Tickers |-> 1],
                 !.storeOk = Tickers]

InitMounted(held) ==
  /\ now = 0
  /\ predStore = [t \in Tickers |-> PredictionToStore(ApiRecord(t, 0), 0)]
  /\ call = [k \in Calls |-> IF k = 1 THEN MountedCall ELSE NoCall]
  /\ users = [u \in Users |->
                IF held /\ u = CurrentUser
                THEN MergeUserDocument(NoDoc, <<>>) ELSE NoDoc]
  /\ task = [c \in Clients |-> Idle]
  /\ event = [NoEvent EXCEPT !.kind = "fetchUserData", !.user = CurrentUser,
                             !.ret = IF held THEN "true" ELSE "false",
                             !.present = held]
  /\ calls = [c \in Clients |->
                IF c = Mounting
                THEN [NoCalls EXCEPT
                        !.reads = IF held THEN 1 ELSE maxRetries,
                        !.failed = ~held, !.found = held]
                ELSE NoCalls]
  /\ InitRefresh
  /\ predictions = MountedRecords
  /\ alert = NoAlert
  /\ request = [k \in Calls |->
                  IF k = 1
                  THEN [pc |-> "returned", by |-> "initial",
                        client |-> Mounting]
                  ELSE NoRequest]
  /\ hint = "none"
  /\ watchlist = <<>>
  /\ toggle = [c \in Clients |-> NoToggle]
  /\ load = [c \in Clients |-> NoLoad]
  /\ hooks = [NoHooks EXCEPT !.userData = held]
  /\ InitApi

InitToggle == \E held \in BOOLEAN : InitMounted(held)

SpecToggle == InitToggle /\ [][NextToggle]_vars

SpecMount == Init /\ [][NextMount]_vars

\* ---------------------------------------------- cache read over all shapes
\* A second specification for the cache read: the store starts with a
\* document of any shape and age for every ticker (or none), and the cache
\* read of one non-forcing call runs.
ShapesNow == 2 * CACHE_EXPIRY_HOURS
ShapesInstants == {CACHE_EXPIRY_HOURS, CACHE_EXPIRY_HOURS + 1}

StoredDocs(t) ==
  {Absent} \cup
  {[ticker |-> t, src |-> "cron", lastUpdated |-> [shape |-> sh, t |-> lu],
    storedAt |-> NoTime] :
     sh \in {"timestamp", "string", "seconds", "other"},
     lu \in ShapesInstants} \cup
  {[ticker |-> t, src |-> "cron", lastUpdated |-> [shape |-> sh, t |-> 0],
    storedAt |-> NoTime] : sh \in {"badstring", "none"}}

InitShapes ==
  /\ now = ShapesNow
  /\ predStore \in {f \in [Tickers -> UNION {StoredDocs(t) : t \in Tickers}] :
                      \A t \in Tickers : f[t] \in StoredDocs(t)}
  /\ call = [k \in Calls |-> NoCall]
  /\ InitRest

NextShapes ==
  \/ CallStart(1, FALSE)
  \/ \E out \in ReadOutcomes : CacheReadStep(1, out)

SpecShapes == InitShapes /\ [][NextShapes]_vars

\* ======================================================= claims, pipeline
\* The age of a stored record is defined when its lastUpdated denotes an
\* instant: a store timestamp, a parsable ISO string or a seconds object.
Recognised(d) == d.lastUpdated.shape \in {"timestamp", "string", "seconds"}

\* The record is a valid cached record: its age is less than 24 hours.
ValidRecord(d, clock) ==
  Exists(d) /\ Recognised(d) /\ clock - d.lastUpdated.t < 24

\* The record is absent or expired: no document, no lastUpdated, or an age
\* of 24 hours or more.
AbsentOrExpired(d, clock) ==
  \/ ~Exists(d)
  \/ d.lastUpdated.shape = "none"
  \/ Recognised(d) /\ clock - d.lastUpdated.t >= 24

\* The claims speak of one call c (a value of call[k]).  The age of the
\* record of t the call read, snap[t], is taken at the now of the call's
\* cache read, cacheNow.
InNonForcingCall(c) ==
  c.pc \in {"cache", "missing", "all", "done"} /\ ~c.forceRefresh
NonForcingDone(c) == c.pc = "done" /\ ~c.forceRefresh
served(c) == TickersOf(c.cachedPredictions)
\* The request of the call c for ticker t has been posted and not answered.
InFlight(c, t) == c.awaiting = "post" /\ LoopTicker(c) = t
fetchFailed(c) ==
  {t \in Tickers : c.fetchCount[t] > 0 /\ t \notin c.fetchOk
                   /\ ~InFlight(c, t)}
RecordsOf(recs) == {recs[n] : n \in 1..Len(recs)}
\* The records the call c fetched, each dated with the hour of its fetch.
FetchedRecords(c) == {ApiRecord(t, c.fetchedAt[t]) : t \in c.fetchOk}
\* The records the cache read of the call c served.
ServedRecords(c) == {CachedView(c.snap[t], c.cacheNow) : t \in served(c)}

\* C1 as stated: in a non-forcing call no remote fetch is invoked for a
\* ticker that has a valid (less than 24 hours old) record in the store.
C1_Original ==
  \A k \in Calls :
    InNonForcingCall(call[k]) =>
      \A t \in Tickers :
        ValidRecord(call[k].snap[t], call[k].cacheNow)
          => call[k].fetchCount[t] = 0

\* C1 amended: in a non-forcing call no remote fetch is invoked for a ticker
\* the cache read served, and a ticker with a valid stored record is fetched
\* only if its read failed or a read of the call was denied.
C1_NoFetchForServed ==
  \A k \in Calls :
    LET c == call[k] IN
    InNonForcingCall(c) =>
      /\ \A t \in served(c) : c.fetchCount[t] = 0
      /\ \A t \in Tickers :
           (ValidRecord(c.snap[t], c.cacheNow) /\ c.fetchCount[t] > 0)
             => (t \in c.readFailed \/ c.deniedAt # 0)

C1_Witness ==
  \E k \in Calls :
    LET c == call[k] IN
    /\ NonForcingDone(c)
    /\ \E t \in served(c) : /\ ValidRecord(c.snap[t], c.cacheNow)
                            /\ c.cacheNow - c.snap[t].lastUpdated.t > 0
    /\ \E t \in Tickers : c.fetchCount[t] = 1

\* C2: in a non-forcing call every ticker whose stored record is absent or
\* expired (24 hours old or more) is fetched remotely exactly once, and no
\* ticker is ever fetched twice.
C2_FetchedExactlyOnce ==
  \A k \in Calls :
    LET c == call[k] IN
    /\ InNonForcingCall(c) => \A t \in Tickers : c.fetchCount[t] <= 1
    /\ NonForcingDone(c) =>
         \A t \in Tickers :
           AbsentOrExpired(c.snap[t], c.cacheNow) => c.fetchCount[t] = 1

C2_Witness ==
  /\ \E k \in Calls :
       /\ NonForcingDone(call[k])
       /\ \E t \in Tickers :
            ~Exists(call[k].snap[t]) /\ call[k].readCount[t] = 1
            /\ call[k].fetchCount[t] = 1
  /\ \E k \in Calls :
       LET c == call[k] IN
       /\ NonForcingDone(c)
       /\ served(c) # {}
       /\ \E t \in Tickers :
            /\ Exists(c.snap[t]) /\ Recognised(c.snap[t])
            /\ c.cacheNow - c.snap[t].lastUpdated.t = 24
            /\ c.fetchCount[t] = 1

\* C3: when the fetch fails for some tickers (and succeeds for another or
\* the cache served another), the call returns normally and the result is
\* exactly the cache hits plus the records of the tickers whose fetch
\* succeeded; the failed tickers are left out.
C3_PartialResult ==
  \A k \in Calls :
    LET c == call[k] IN
    (c.pc = "done" /\ fetchFailed(c) # {}) =>
      /\ ~c.raised
      /\ RecordsOf(c.result) = ServedRecords(c) \cup FetchedRecords(c)
      /\ Len(c.result) = Cardinality(served(c)) + Cardinality(c.fetchOk)
      /\ TickersOf(c.result) \cap fetchFailed(c) = {}

C3_Witness ==
  /\ \E k \in Calls :
       LET c == call[k] IN
       /\ c.pc = "done" /\ c.fetchOk # {} /\ fetchFailed(c) # {}
       /\ TickersOf(c.result) = c.fetchOk
  /\ \E k \in Calls :
       LET c == call[k] IN
       /\ c.pc = "done" /\ served(c) # {} /\ fetchFailed(c) # {}
       /\ TickersOf(c.result) = served(c)

\* C4 as stated: the call raises to its caller exactly when no valid cached
\* record exists and every remote fetch fails.
C4_Original ==
  \A k \in Calls :
    LET c == call[k] IN
    c.pc = "done" =>
      (c.raised <=>
         /\ \A t \in Tickers : ~ValidRecord(c.snap[t], c.cacheNow)
         /\ \A t \in Tickers : c.fetchCount[t] > 0 /\ t \notin c.fetchOk)

\* C5: a forcing call reads no cached document, fetches every ticker,
\* attempts to persist every fetched record and returns exactly the records
\* fetched successfully.
C5_ForceRefresh ==
  \A k \in Calls :
    LET c == call[k] IN
    /\ (c.pc # "idle" /\ c.forceRefresh)
         => \A t \in Tickers : c.readCount[t] = 0
    /\ (c.pc = "done" /\ c.forceRefresh) =>
         /\ \A t \in Tickers : c.fetchCount[t] = 1
         /\ \A t \in Tickers :
              c.storeAttempts[t] = (IF t \in c.fetchOk THEN 1 ELSE 0)
         /\ RecordsOf(c.result) = FetchedRecords(c)
         /\ Len(c.result) = Cardinality(c.fetchOk)

\* A forcing second call that fetched a ticker the first call had stored a
\* valid record of, with a failed fetch and a rejected write.
C5_Witness ==
  /\ call[1].pc = "done"
  /\ call[2].pc = "done" /\ call[2].forceRefresh
  /\ call[2].fetchOk # {} /\ fetchFailed(call[2]) # {}
  /\ \E t \in call[2].fetchOk : t \notin call[2].storeOk
  /\ \E t \in call[1].storeOk \ call[2].storeOk :
       /\ ValidRecord(predStore[t], now)
       /\ call[2].fetchCount[t] = 1

\* C7: in a non-forcing call, a permission-denied read makes the whole
\* cache read yield no record (earlier hits are dropped, later tickers are
\* not read) and every ticker is then fetched remotely.
C7_PermissionDenied ==
  \A k \in Calls :
    LET c == call[k] IN
    (InNonForcingCall(c) /\ c.deniedAt # 0) =>
      /\ c.pc # "cache"
      /\ c.cachedPredictions = <<>>
      /\ \A t \in Tickers :
           c.readCount[t] = (IF t <= c.deniedAt THEN 1 ELSE 0)
      /\ c.pc \in {"all", "done"}
      /\ c.pc = "done" => \A t \in Tickers : c.fetchCount[t] = 1

\* One call was denied at its first read and read no further ticker; the
\* other had a hit and was denied at a later read.
C7_Witness ==
  /\ \E k \in Calls :
       LET c == call[k] IN
       /\ NonForcingDone(c) /\ c.deniedAt # 0 /\ c.deniedAt < NumTickers
       /\ \E t \in Tickers : c.readCount[t] = 0
       /\ \A t \in Tickers : c.fetchCount[t] = 1
  /\ \E k \in Calls :
       LET c == call[k] IN
       /\ NonForcingDone(c) /\ c.deniedAt # 0
       /\ c.hits # <<>>
       /\ \A t \in Tickers : c.fetchCount[t] = 1

\* C8: every returned record is a cached record the cache read of this call
\* served, or the record of a remote fetch that succeeded in this call; no
\* sample record is returned, also when every fetch fails.
C8_NoFabricatedRecords ==
  \A k \in Calls :
    LET c == call[k] IN
    c.pc = "done" =>
      \A n \in 1..Len(c.result) :
        LET r == c.result[n] IN
        /\ r.src # "sample"
        /\ \/ /\ r.ticker \in served(c)
              /\ c.readCount[r.ticker] = 1
              /\ r = CachedView(c.snap[r.ticker], c.cacheNow)
           \/ /\ r.ticker \in c.fetchOk
              /\ r = ApiRecord(r.ticker, c.fetchedAt[r.ticker])

C8_Witness ==
  \E k \in Calls :
    LET c == call[k] IN
    /\ c.pc = "done" /\ c.result = <<>>
    /\ \A t \in Tickers : c.fetchCount[t] = 1 /\ t \notin c.fetchOk
    /\ \E t \in Tickers : Exists(c.snap[t])

\* ==================================================== claims, cache read
\* The tickers whose document the cache read of the call c has read.
readOk(c) ==
  {t \in Tickers : c.readCount[t] = 1 /\ t \notin c.readFailed
                   /\ t # c.deniedAt}
hitTickers(c) == TickersOf(c.hits)

\* C6 as stated: the cache read serves a stored record exactly when
\* now - lastUpdated is less than 24 hours, whatever the shape of the stored
\* lastUpdated; a record without lastUpdated is never served.
C6_Original ==
  \A k \in Calls :
    LET c == call[k] IN
    InNonForcingCall(c) =>
      \A t \in readOk(c) :
        t \in hitTickers(c) <=>
          /\ Exists(c.snap[t])
          /\ c.snap[t].lastUpdated.shape \in
               {"timestamp", "string", "seconds", "other"}
          /\ c.cacheNow - c.snap[t].lastUpdated.t < 24

\* C6 amended: the cache read serves a stored record exactly when its
\* lastUpdated is a store timestamp, a parsable ISO string or a seconds
\* object less than 24 hours old, or has any other shape (then it is taken
\* as updated now, whatever its age); a record without lastUpdated, with an
\* unparsable string or aged 24 hours or more is never served.
C6_ServedIffFreshOrUnknownShape ==
  \A k \in Calls :
    LET c == call[k] IN
    InNonForcingCall(c) =>
      \A t \in readOk(c) :
        t \in hitTickers(c) <=>
          /\ Exists(c.snap[t])
          /\ \/ /\ Recognised(c.snap[t])
                /\ c.cacheNow - c.snap[t].lastUpdated.t < 24
             \/ c.snap[t].lastUpdated.shape = "other"

C6_Witness ==
  \E k \in Calls :
    LET c == call[k] IN
    /\ c.pc \in {"missing", "all", "done"} /\ ~c.forceRefresh
    /\ \E t \in readOk(c) : /\ c.snap[t].lastUpdated.shape = "other"
                            /\ c.cacheNow - c.snap[t].lastUpdated.t = 24
                            /\ t \in hitTickers(c)
    /\ \E t \in readOk(c) : /\ c.snap[t].lastUpdated.shape = "string"
                            /\ c.cacheNow - c.snap[t].lastUpdated.t = 24
                            /\ t \notin hitTickers(c)

\* =================================================== claims, user records
WatchlistWriters == {"addToWatchlist", "removeFromWatchlist"}

\* C9: the stored watchlist of an existing user record is changed only by
\* addToWatchlist and removeFromWatchlist; createUserDocument,
\* updateUserLastLogin and updateUserSubscription leave it unchanged.
C9_WatchlistOnlyByAddRemove ==
  [][\A u \in Users :
       (users[u].exists /\ users'[u].watchlist # users[u].watchlist)
         => event'.kind \in WatchlistWriters]_vars

\* C10: an addToWatchlist(u, t) that finds t in the stored watchlist returns
\* success without writing, and after every successful addToWatchlist(u, t)
\* the ticker t occurs exactly once in the stored watchlist of u.
C10_AddIdempotent ==
  event.kind = "addToWatchlist" =>
    /\ event.present => (event.ret = "true" /\ ~event.wrote)
    /\ event.ret = "true" =>
         Count(event.ticker, users[event.user].watchlist) = 1
    /\ \A u \in Users, t \in WatchTickers : Count(t, users[u].watchlist) <= 1

C10_Witness ==
  /\ event.kind = "addToWatchlist" /\ event.present /\ event.ret = "true"
  /\ Len(users[event.user].watchlist) = 2
  /\ Count(event.ticker, users[event.user].watchlist) = 1

\* The operation of the given kind that client c started last has returned.
Returned(c, kind) == task[c].kind = "none" /\ event.kind = kind

\* C11: an addToWatchlist(u, t) whose getDoc finds no record for u creates
\* the record with watchlist exactly <<t>> and returns success; it returns
\* failure only when the creating setDoc is rejected by the store.
C11_AddCreatesRecord ==
  \A c \in SeqClients :
    (Returned(c, "addToWatchlist") /\ calls[c].missing) =>
      /\ calls[c].writes = 1
      /\ (event.ret = "false") <=> calls[c].failed
      /\ ~calls[c].failed =>
           /\ event.ret = "true"
           /\ users[event.user].exists
           /\ users[event.user].watchlist = <<event.ticker>>

C11_Witness ==
  \E c \in SeqClients :
    /\ Returned(c, "addToWatchlist") /\ calls[c].missing
    /\ ~calls[c].failed /\ event.ret = "true"
    /\ users[event.user].watchlist = <<event.ticker>>

\* Client c returns from removeFromWatchlist in this step.
RemoveReturns(c) ==
  task[c].kind = "removeFromWatchlist" /\ task'[c].kind = "none"

\* The watchlist new is the watchlist old with every occurrence of t taken
\* out and every other ticker kept.
Removed(old, new, t) ==
  /\ Count(t, new) = 0
  /\ \A x \in WatchTickers \ {t} : Count(x, new) = Count(x, old)

\* C12 as stated: with a non-empty userId and a working store,
\* removeFromWatchlist(u, t) returns success and leaves the store unchanged
\* when t is not in the stored watchlist of u, the case of u having no
\* record included; when t is present it is removed and all others kept.
C12_Original ==
  [][\A c \in SeqClients :
       (RemoveReturns(c) /\ ~calls'[c].failed) =>
         LET u == task[c].user
             t == task[c].ticker
         IN  IF ~Includes(users[u].watchlist, t)
             THEN event'.ret = "true" /\ users' = users
             ELSE /\ event'.ret = "true"
                  /\ Removed(users[u].watchlist, users'[u].watchlist, t)]_vars

\* C12, amended: with a non-empty userId, removeFromWatchlist(u, t) returns
\* failure without writing when u has no record or a store call is
\* rejected; it returns success without writing when u has a record that
\* does not list t; and when t is listed it is removed by one write that
\* keeps all other tickers and fields, and success is returned.
C12_RemoveFromWatchlist ==
  [][\A c \in SeqClients :
       RemoveReturns(c) =>
         LET u == task[c].user
             t == task[c].ticker
         IN  /\ u # NoUser
             /\ IF calls'[c].failed \/ ~users[u].exists
                THEN event'.ret = "false" /\ users' = users
                ELSE IF ~Includes(users[u].watchlist, t)
                THEN /\ event'.ret = "true" /\ users' = users
                     /\ calls'[c].writes = 0
                ELSE /\ event'.ret = "true" /\ calls'[c].writes = 1
                     /\ Removed(users[u].watchlist, users'[u].watchlist, t)
                     /\ users' = [users EXCEPT ![u].watchlist =
                                                users'[u].watchlist]]_vars

C12_Witness ==
  \E c \in SeqClients :
    /\ Returned(c, "removeFromWatchlist") /\ event.present
    /\ event.ret = "true" /\ calls[c].writes = 1
    /\ Len(users[event.user].watchlist) = 1
    /\ ~Includes(users[event.user].watchlist, event.ticker)

\* C13: addToWatchlist and removeFromWatchlist called with an empty userId
\* return the failure flag, do not throw, and issue no getDoc and no setDoc.
C13_MissingUser ==
  \A c \in SeqClients, kind \in WatchlistWriters :
    (Returned(c, kind) /\ event.user = NoUser) =>
      /\ event.ret = "false"
      /\ ~event.wrote
      /\ calls[c].reads = 0 /\ calls[c].writes = 0

C13_Witness ==
  \E c \in SeqClients :
    /\ Returned(c, "removeFromWatchlist") /\ event.user = NoUser
    /\ event.ret = "false" /\ calls[c] = NoCalls
    /\ \E u \in Users : users[u].watchlist # <<>>

\* C15: a rejected store write (permission-denied or any other error) makes
\* storePrediction return false and nothing is raised: the loop goes on,
\* and every record fetched in the call is part of the returned list,
\* stored or not.
C15_DeniedWriteKeepsRecord ==
  \A k \in Calls :
    LET c == call[k] IN
    c.pc = "done" =>
      /\ \A t \in c.fetchOk :
           /\ c.storeAttempts[t] = 1
           /\ \E n \in 1..Len(c.result) :
                c.result[n] = ApiRecord(t, c.fetchedAt[t])
      /\ c.storeOk \subseteq c.fetchOk
      /\ (c.fetchOk # {}) => ~c.raised
      /\ \A t \in Tickers \ served(c) : c.fetchCount[t] = 1

C15_Witness ==
  \E k \in Calls :
    LET c == call[k] IN
    /\ c.pc = "done" /\ ~c.raised
    /\ c.fetchOk = Tickers /\ c.storeOk = {}
    /\ \A t \in Tickers : c.storeAttempts[t] = 1
    /\ TickersOf(c.result) = Tickers
    /\ \A t \in Tickers : ~Exists(predStore[t])

\* ===================================================== claims, store writes
\* Client c's storePrediction returns in this step.
StoreReturns(c) == refresh[c].pc = "store" /\ refresh'[c].pc = "done"

\* C14 as stated: storePrediction merges the written record into the stored
\* document of the ticker; every field stored before the write is still
\* present after it.
C14_Original ==
  [][\A c \in Clients :
       StoreReturns(c) =>
         LET t == refresh[c].prediction.ticker IN
         Exists(predStore[t]) =>
           \A f \in DOMAIN predStore[t] :
             f \in DOMAIN predStore'[t]]_vars

\* C14, amended: a storePrediction that returns true has replaced the
\* stored document of the ticker by the written record: the document then
\* has exactly the fields of the written record, and a field stored before
\* that the written record does not have is gone; a storePrediction that
\* returns false leaves the store as it was.
C14_StoreReplaces ==
  [][\A c \in Clients :
       StoreReturns(c) =>
         LET p == refresh[c].prediction
             written == PredictionToStore(p, now)
         IN  IF refresh'[c].ret
             THEN /\ predStore'[p.ticker] = written
                  /\ DOMAIN predStore'[p.ticker] = DOMAIN written
                  /\ \A t \in Tickers \ {p.ticker} :
                       predStore'[t] = predStore[t]
             ELSE predStore' = predStore]_vars

C14_Witness ==
  \E c \in Clients :
    /\ refresh[c].pc = "done" /\ refresh[c].ret
    /\ LET t == refresh[c].prediction.ticker IN
       /\ applied[t] = [client |-> c, at |-> 0]
       /\ "extra" \notin DOMAIN predStore[t]
       /\ \E u \in Tickers : "extra" \in DOMAIN predStore[u]

\* Two clients have both stored a record for ticker t and both calls
\* returned true.
BothStored(t) ==
  \A c \in Clients :
    /\ refresh[c].pc = "done" /\ refresh[c].ret
    /\ refresh[c].prediction.ticker = t

\* C18: when two clients refresh the same ticker concurrently and the store
\* accepts both writes, the stored document is the whole record of the
\* write the store applied last, whichever of the two records is the newer
\* one; it is never made of fields of both.
C18_LastWriteWins ==
  \A t \in Tickers :
    BothStored(t) =>
      /\ applied[t].client \in Clients
      /\ predStore[t] =
           PredictionToStore(refresh[applied[t].client].prediction,
                             applied[t].at)

C18_Witness ==
  \E t \in Tickers, c \in Clients :
    /\ BothStored(t)
    /\ applied[t].client = c
    /\ \E o \in Clients :
         refresh[o].prediction.lastUpdated > refresh[c].prediction.lastUpdated
    /\ predStore[t].lastUpdated.t = refresh[c].prediction.lastUpdated

\* ======================================================= claims, HomeScreen
\* The fetchLatestPredictions call k, made by a request of the focus
\* effect, has finished and its result is about to be taken.
FocusCallDone(k) ==
  /\ call[k].pc = "done"
  /\ request[k].pc = "calling" /\ request[k].by = "focus"

\* Records are held, and each of them is between 1 and 24 hours old and
\* valid in the store as the call k found it; no time has passed since the
\* call was made.
HeldAgedAndStored(k) ==
  /\ Len(predictions) > 0
  /\ call[k].cacheNow = now
  /\ \A n \in 1..Len(predictions) :
       /\ now - predictions[n].lastUpdated > 1
       /\ now - predictions[n].lastUpdated < CACHE_EXPIRY_HOURS
       /\ ValidRecord(call[k].snap[predictions[n].ticker], now)

\* C16 as stated: the call the focus effect triggers is non-forcing, and
\* when every held record is between 1 and 24 hours old and valid in the
\* store it is answered from the cache with no remote fetch.
C16_Original ==
  \A k \in Calls :
    (FocusCallDone(k) /\ HeldAgedAndStored(k)) =>
      /\ ~call[k].forceRefresh
      /\ call[k].fetchCount = Zero
      /\ call[k].result = call[k].cachedPredictions

\* C16, amended: the call the focus effect triggers is non-forcing; when
\* every ticker of the valid list has a valid record in the store and every
\* cache read of the call succeeds it is answered from the cache with no
\* remote fetch, and a ticker is fetched only if it has no valid stored
\* record or a cache read of the call failed.
C16_FocusNeverForces ==
  \A k \in Calls :
    LET c == call[k] IN
    /\ (request[k].by = "focus" /\ c.pc # "idle") => ~c.forceRefresh
    /\ FocusCallDone(k) =>
         /\ ((\A t \in Tickers : ValidRecord(c.snap[t], c.cacheNow))
              /\ c.readFailed = {} /\ c.deniedAt = 0)
             => /\ c.fetchCount = Zero
                /\ c.result = c.cachedPredictions
                /\ TickersOf(c.result) = Tickers
         /\ \A t \in Tickers :
              c.fetchCount[t] > 0 =>
                \/ ~ValidRecord(c.snap[t], c.cacheNow)
                \/ t \in c.readFailed
                \/ c.deniedAt # 0

C16_Witness ==
  \E k \in Calls :
    /\ FocusCallDone(k) /\ HeldAgedAndStored(k)
    /\ TickersOf(predictions) = Tickers
    /\ call[k].fetchCount = Zero
    /\ TickersOf(call[k].result) = Tickers

\* C17: shouldRefreshPredictions signals refresh-needed if and only if no
\* record is held or some held record (hence the oldest) was last updated
\* more than 1 hour before now.
C17_ShouldRefresh ==
  hint # "none" =>
    (hint = "stale" <=>
       \/ Len(predictions) = 0
       \/ \E n \in 1..Len(predictions) : now - predictions[n].lastUpdated > 1)

C17_Witness ==
  /\ hint = "fresh"
  /\ \E n \in 1..Len(predictions) : now - predictions[n].lastUpdated = 1
  /\ \E n \in 1..Len(predictions) : predictions[n].lastUpdated > now

\* C19: fetchPredictionsData shows an alert exactly when the request
\* yielded no record; a result with at least one record shows no alert and
\* replaces the held records, an empty result leaves the held records as
\* they were.
C19_AlertIffNoRecords ==
  [][\A k \in Calls :
       (request[k].pc = "calling" /\ request'[k].pc = "returned") =>
         /\ (alert' # alert) <=> (Len(call[k].result) = 0)
         /\ Len(call[k].result) = 0 =>
              /\ alert' = [text |-> "No Data Available", request |-> k]
              /\ predictions' = predictions
         /\ Len(call[k].result) > 0 => predictions' = call[k].result]_vars

C19_Witness ==
  \E k \in Calls :
    /\ request[k].pc = "returned"
    /\ alert = [text |-> "No Data Available", request |-> k]
    /\ Len(call[k].result) = 0
    /\ Len(predictions) = NumTickers

\* ============================================= claims, fetchStockPrediction
\* The forecast element is numeric: a number or a numeral string.
Numeric(p) == p.kind = "number" \/ (p.kind = "string" /\ IsNumeral(p.s))

\* C20: in a returned record every non-numeric element of the forecast
\* sequence (a non-numeric string, null, the empty string) has been replaced
\* by the resolved current price, which is neither 0 nor NaN, and every
\* numeric element is in rawPredictions with its own value.
C20_NonNumericReplaced ==
  predictionObject.status = "ok" =>
    LET ps == Flatten(apiData.predictions)
        raw == predictionObject.rawPredictions
    IN  \A k \in 1..Len(ps) :
          ps[k].kind # "array" =>
            IF Numeric(ps[k])
            THEN raw[k] = ToNumber(ps[k])
            ELSE /\ raw[k] = predictionObject.currentPrice
                 /\ ~raw[k].nan
                 /\ raw[k].v # 0

\* The payload with every element that is a sequence of one element
\* replaced by that element, wherever it stands.
FlattenAll(ps) ==
  [k \in 1..Len(ps) |->
     IF ps[k].kind = "array" /\ Len(ps[k].a) = 1 THEN ps[k].a[1] ELSE ps[k]]

\* C21: the outcome of fetchStockPrediction (the error, or the current
\* price, the numeric predictions, their mean and the confidence) is the
\* one computed from the payload in which every 1-element sequence has been
\* replaced by its single value, whether or not the first element of the
\* payload is a sequence.
C21_NestedFlattened ==
  predictionObject.status # "none" =>
    LET flat == FlattenAll(apiData.predictions) IN
    /\ predictionObject =
         PredictionObject([apiData EXCEPT !.predictions = flat])
    /\ predictionObject.status = "ok" =>
         /\ predictionObject.rawPredictions =
              NumericPredictions(flat, predictionObject.currentPrice)
         /\ \A k \in 1..Len(flat) :
              (apiData.predictions[k].kind = "array"
               /\ flat[k].kind = "number")
                 => predictionObject.rawPredictions[k] = Number(flat[k].n)

C21_Witness ==
  /\ predictionObject.status = "ok"
  /\ Len(apiData.predictions) = 3
  /\ apiData.predictions[1] = Num(101)
  /\ apiData.predictions[2] = Arr(<<Num(102)>>)
  /\ apiData.predictions[3] = Arr(<<Num(102)>>)
  /\ predictionObject.rawPredictions =
       <<Number(101), Number(102), Number(102)>>
  /\ predictionObject.avgPrediction = Quotient(305, 3)

\* The response carries a current price: one of its two price fields is
\* there.
CarriesPrice(data) ==
  data.current_price # Undefined \/ data.stock_data_current_price # Undefined

\* Some forecast element of the payload can stand for the current price.
HasProxy(ps) == \E k \in 1..Len(ps) : Numeric(FlattenAll(ps)[k])

\* C22: fetchStockPrediction fails with the error of the missing current
\* price whenever the response has neither current_price nor
\* stock_data.current_price and no forecast element is numeric, and the
\* currentPrice of a returned record is always a number.
C22_NoCurrentPrice ==
  predictionObject.status # "none" =>
    /\ (~CarriesPrice(apiData) /\ ~HasProxy(apiData.predictions))
         => /\ predictionObject.status = "throw"
            /\ predictionObject.error = "No current price available"
    /\ predictionObject.status = "ok" => ~predictionObject.currentPrice.nan

RECURSIVE Less(_, _, _, _)
\* a / b < c / d for a, c >= 0 and b, d > 0, without products
Less(a, b, c, d) ==
  IF a \div b # c \div d THEN a \div b < c \div d
  ELSE IF c % d = 0 THEN FALSE
  ELSE IF a % b = 0 THEN TRUE
  ELSE Less(d, c % d, b, a % b)

\* The dispersion of a sequence relative to its mean is defined: its
\* numbers are numbers and their mean is positive.
Rated(nums) == Len(nums) > 0 /\ ~AnyNaN(nums) /\ Sum(nums) > 0

\* The standard deviation over the mean of b exceeds that of a.
MoreDispersed(a, b) ==
  Less(Dispersion(a), Sum(a) * Sum(a), Dispersion(b), Sum(b) * Sum(b))

\* The sequences a record's forecast is compared with.
ComparedPrices == {100, 101, 103}
Compared ==
  UNION {[1..n -> {Number(v) : v \in ComparedPrices}] : n \in 1..MaxForecast}

\* C23: the confidence of a returned record is a number in [0.30, 0.95],
\* and of two forecast sequences of any lengths the one with the larger
\* dispersion relative to its mean never has the higher confidence.
C23_ConfidenceMonotone ==
  predictionObject.status = "ok" =>
    LET mine == predictionObject.rawPredictions
        confidence == predictionObject.confidence
    IN  /\ ~confidence.nan
        /\ confidence.lo \in MinConfidence..MaxConfidence
        /\ confidence.hi \in MinConfidence..MaxConfidence
        /\ Rated(mine) =>
             \A other \in Compared :
               /\ MoreDispersed(mine, other)
                    => Confidence(other).hi <= confidence.lo
               /\ MoreDispersed(other, mine)
                    => confidence.hi <= Confidence(other).lo

\* ================================================== claims, retry loops
\* C24: every retry loop (createUserDocument, updateUserLastLogin,
\* updateUserSubscription, fetchUserData) makes at most maxRetries attempts
\* of its store operation, also when every attempt fails.
C24_RetryCap ==
  \A c \in SeqClients :
    /\ calls[c].writes <= maxRetries
    /\ calls[c].reads <= maxRetries

\* The verifying getDoc of client c's createUserDocument resolves in this
\* step.
VerifyResolves(c) ==
  /\ task[c].kind = "createUserDocument" /\ task[c].pc = "verify"
  /\ calls'[c].reads = calls[c].reads + 1

\* C25: when the write of createUserDocument succeeded, the verifying read
\* finds no document and attempts remain, the creation is retried and not
\* reported as success; createUserDocument returns true only after a
\* verifying read that found the document or after the last attempt.
C25_VerifyRetries ==
  [][\A c \in SeqClients :
       VerifyResolves(c) =>
         /\ (calls'[c].missing /\ task[c].retries < maxRetries - 1)
              => /\ task'[c].kind = "createUserDocument"
                 /\ task'[c].pc = "set"
         /\ (task'[c].kind = "none" /\ event'.ret = "true")
              => \/ calls'[c].found
                 \/ calls'[c].writes >= maxRetries]_vars

\* ========================================= claims, concurrent watchlist
\* Client c's removeFromWatchlist(u, t) writes and returns in this step.
RemoveWrites(c, u, t) ==
  /\ task[c].kind = "removeFromWatchlist" /\ task[c].pc = "write"
  /\ task[c].user = u /\ task[c].ticker = t
  /\ task'[c].kind = "none"

\* Client c's addToWatchlist writes the store and returns success in this
\* step.
AddWrites(c) ==
  /\ task[c].kind = "addToWatchlist" /\ task'[c].kind = "none"
  /\ event'.ret = "true" /\ event'.wrote

\* C26: under every interleaving of the watchlist operations of one user,
\* a ticker leaves the stored watchlist only by a removeFromWatchlist of
\* that ticker, and an add that wrote and returned success has its ticker
\* in the stored watchlist; so two concurrent adds of different tickers
\* leave both tickers stored.
C26_AddedStays ==
  [][/\ \A u \in Users, t \in WatchTickers :
          (Includes(users[u].watchlist, t)
           /\ ~Includes(users'[u].watchlist, t))
            => \E c \in Clients : RemoveWrites(c, u, t)
     /\ \A c \in Clients :
          AddWrites(c) =>
            Includes(users'[task[c].user].watchlist, task[c].ticker)]_vars

\* No handleToggleWatchlist call is in progress.
TogglesCompleted == \A c \in Clients : toggle[c].pc = "idle"

\* C27: once the handleToggleWatchlist calls have completed, the watchlist
\* held in memory contains a ticker if and only if the stored watchlist of
\* the user does, also after a store operation that failed and after two
\* calls that overlapped; and the watchlist in memory never holds a ticker
\* twice.
C27_ToggleConsistent ==
  /\ TogglesCompleted =>
       \A t \in WatchTickers :
         Includes(watchlist, t) <=> Includes(users[CurrentUser].watchlist, t)
  /\ \A t \in WatchTickers : Count(t, watchlist) <= 1

\* ============================================================ claims, mount
\* C28: when the screen is mounted over an empty cache, the calls of the
\* focus effect and of the initial load together fetch each ticker
\* remotely at most once, and never have requests for the same ticker in
\* flight at the same time.
C28_MountFetchesOnce ==
  /\ \A t \in Tickers : call[1].fetchCount[t] + call[2].fetchCount[t] <= 1
  /\ \A t \in Tickers : ~(InFlight(call[1], t) /\ InFlight(call[2], t))

\* ====================================================== claims, the result
\* The tickers the call c has fetched remotely.
fetched(c) == {t \in Tickers : c.fetchCount[t] > 0}

\* C29: the list a call returns never holds two records with the same
\* ticker, and the tickers the call fetched remotely are disjoint from the
\* tickers it served from the cache.
C29_NoDuplicateTickers ==
  \A k \in Calls :
    LET c == call[k] IN
    c.pc = "done" =>
      /\ \A m, n \in 1..Len(c.result) :
           c.result[m].ticker = c.result[n].ticker => m = n
      /\ fetched(c) \cap served(c) = {}

C29_Witness ==
  \E k \in Calls :
    LET c == call[k] IN
    /\ NonForcingDone(c)
    /\ served(c) # {} /\ c.fetchOk # {}
    /\ TickersOf(c.result) = served(c) \cup c.fetchOk
    /\ Len(c.result) = NumTickers

\* The stored document d is a record that a call fetched remotely and
\* storePrediction wrote.
StoredByCall(d) == d.src = "api" /\ d.storedAt # NoTime

\* The call c is a non-forcing call that has returned and whose cache reads
\* have all succeeded.
ReadableDone(c) == NonForcingDone(c) /\ c.readFailed = {} /\ c.deniedAt = 0

\* The call c has returned the stored record d of t and fetched nothing
\* for t.
ServedFromStore(c, t, d) ==
  /\ c.fetchCount[t] = 0
  /\ \E n \in 1..Len(c.result) :
       /\ c.result[n].ticker = t
       /\ c.result[n].src = "api"
       /\ c.result[n].lastUpdated = d.lastUpdated.t

\* C30 as stated: when a call has fetched ticker t and stored its record, a
\* later non-forcing call made less than 24 hours after the record was
\* stored, with the store readable and the record still in place, returns
\* the record of t and fetches nothing for t.
C30_Original ==
  \A k \in Calls :
    LET c == call[k] IN
    ReadableDone(c) =>
      \A t \in Tickers :
        (/\ StoredByCall(c.snap[t])
         /\ c.cacheNow - c.snap[t].storedAt >= 0
         /\ c.cacheNow - c.snap[t].storedAt < CACHE_EXPIRY_HOURS)
          => ServedFromStore(c, t, c.snap[t])

\* C30, amended: when a call has fetched ticker t and stored its record, a
\* non-forcing call whose cache read is made less than 24 hours after the
\* fetch of the record (its lastUpdated, which is earlier than the end of
\* the call that stored it), with the store readable and the record in
\* place, returns the record of t and fetches nothing for t.
C30_CacheRoundTrip ==
  \A k \in Calls :
    LET c == call[k] IN
    ReadableDone(c) =>
      \A t \in Tickers :
        (/\ StoredByCall(c.snap[t])
         /\ c.cacheNow - c.snap[t].lastUpdated.t < CACHE_EXPIRY_HOURS)
          => ServedFromStore(c, t, c.snap[t])

C30_Witness ==
  \E k \in Calls :
    LET c == call[k] IN
    /\ ReadableDone(c)
    /\ \E t \in Tickers :
         /\ StoredByCall(c.snap[t])
         /\ c.snap[t].storedAt > c.snap[t].lastUpdated.t
         /\ c.cacheNow - c.snap[t].storedAt >= 0
         /\ ServedFromStore(c, t, c.snap[t])
    /\ \E t \in Tickers : c.fetchCount[t] > 0
====
